---------------------------- MODULE Spec2Model ----------------------------
(***************************************************************************)
(* Model of the injury-report core of nba-service/app/main.py:            *)
(*   - the report locator  (_extract_report_metadata_from_url,            *)
(*     _select_latest_report_link),                                       *)
(*   - the player/status/reason splitter (_parse_player_status_reason),   *)
(*   - the line parser, the table parser and the page loop                *)
(*     (_parse_injury_report_text, _build_entries_from_table,             *)
(*      _extract_injury_report_entries).                                  *)
(*                                                                         *)
(* Python strings are sequences of one-character strings, so that the     *)
(* regular expressions and the str methods of the source are computed     *)
(* character by character.  Python's None is the value None below.        *)
(***************************************************************************)
EXTENDS Integers, Sequences, FiniteSets, TLC

VARIABLES
    \* ---- _select_latest_report_link
    links,          \* the argument: a list of URLs
    selPc,          \* "call" | "returned" | "raised"
    selResult,      \* the URL returned (None before the return and on a raise)
    selErr,         \* the exception raised (NoError when none)
    \* ---- _parse_player_status_reason
    splitText,      \* the argument
    splitPc,        \* "call" | "returned"
    splitOut,       \* the tuple returned, as a record
    splitOrder,     \* the list of labels the loop scans
    \* ---- _extract_injury_report_entries and its callees
    pc,             \* position in the page loop
    pageNo,         \* number of the page being processed (0 before the first)
    linesLeft,      \* lines the document may still supply
    entries,        \* the heap of entry dicts, in the order of the output list
    context,        \* the context dict
    current_date, current_time, current_matchup, current_team,
    last_entry,     \* locals of _parse_injury_report_text (last_entry: index, 0 = None)
    pageStart,      \* Len(entries) when the page began: text_entries = the rest
    tables,         \* tables of the page still to be processed
    \* ---- observations (history of the run, read by the properties only)
    origin,         \* per entry: page, parser, fields parsed from its own line/row,
                    \*            context fields just before it was finalized
    lastStep,       \* what the last step did
    \* ---- two calls of _extract_injury_report_entries in progress at once
    runs,           \* per call: its frame (entries, context, locals), its position
                    \*           and the document it has read so far
    \* ---- injury_report_latest
    ep,             \* the request: its position, the steps performed, what the
                    \* collaborators answered, the locals and the response
    \* ---- _with_retries
    rt,             \* the call: its position, retries, attempt, last_exc, what each
                    \* attempt did, and what the call returned or raised
    \* ---- _proxy_context, _start_proxy_refresh and the refresh loop
    px              \* the lock, the two environment variables, the pool, and the
                    \* position and locals of each thread

selVars   == <<links, selPc, selResult, selErr>>
splitVars == <<splitText, splitPc, splitOut, splitOrder>>
pipeVars  == <<pc, pageNo, linesLeft, entries, context, current_date, current_time,
               current_matchup, current_team, last_entry, pageStart, tables,
               origin, lastStep>>
twinVars  == <<runs>>
epVars    == <<ep>>
svcVars   == <<rt, px>>
vars      == <<selVars, splitVars, pipeVars, twinVars, epVars, svcVars>>

---------------------------------------------------------------------------
(* Bounds of the model.                                                    *)
MaxPieces == 3      \* pieces concatenated into an argument of the splitter
MaxLinks  == 3      \* links in the argument of the selection
MaxPages  == 2      \* pages of a document
MaxLines  == 3      \* text lines of a document, over all its pages
MaxRetries == 3     \* greatest value of NBA_API_RETRY
MaxMoved  == 2      \* labels of the vocabulary that a reordering displaces
MaxVocabPieces == 2 \* pieces concatenated into a text split under a reordered list
MaxTables == 1      \* tables extracted from one page

---------------------------------------------------------------------------
(* Characters and the str methods used by the source.                      *)

None == <<"<None>">>

Truthy(v) == v # None /\ v # <<>>

OrNone(s) == IF s = <<>> THEN None ELSE s

Digits == {"0", "1", "2", "3", "4", "5", "6", "7", "8", "9"}

UpperSeq == <<"A", "B", "C", "D", "E", "F", "G", "H", "I", "J", "K", "L", "M",
              "N", "O", "P", "Q", "R", "S", "T", "U", "V", "W", "X", "Y", "Z">>

LowerSeq == <<"a", "b", "c", "d", "e", "f", "g", "h", "i", "j", "k", "l", "m",
              "n", "o", "p", "q", "r", "s", "t", "u", "v", "w", "x", "y", "z">>

Letters == {UpperSeq[i] : i \in 1..26} \cup {LowerSeq[i] : i \in 1..26}

IsSpace(c) == c \in {" ", "\t", "\n"}

IsWordChar(c) == c \in Digits \/ c \in Letters \/ c = "_"

LowerChar(c) ==
    IF \E i \in 1..26 : UpperSeq[i] = c
    THEN LowerSeq[CHOOSE i \in 1..26 : UpperSeq[i] = c]
    ELSE c

lower(s) == [i \in 1..Len(s) |-> LowerChar(s[i])]

SetMin(S) == CHOOSE x \in S : \A y \in S : x <= y
SetMax(S) == CHOOSE x \in S : \A y \in S : x >= y

strip(s) ==
    LET keep == {i \in 1..Len(s) : ~IsSpace(s[i])}
    IN  IF keep = {} THEN <<>> ELSE SubSeq(s, SetMin(keep), SetMax(keep))

startswith(s, prefix) ==
    Len(s) >= Len(prefix) /\ SubSeq(s, 1, Len(prefix)) = prefix

Contains(s, c) == \E i \in 1..Len(s) : s[i] = c

RECURSIVE Concat(_)
Concat(ss) == IF ss = <<>> THEN <<>> ELSE Head(ss) \o Concat(Tail(ss))

\* s.split(): the maximal runs of non-whitespace characters, in order.
RECURSIVE split(_)
split(s) ==
    LET t == strip(s)
    IN  IF t = <<>> THEN <<>>
        ELSE LET sp  == {i \in 1..Len(t) : IsSpace(t[i])}
                 cut == IF sp = {} THEN Len(t) + 1 ELSE SetMin(sp)
             IN  <<SubSeq(t, 1, cut - 1)>> \o split(SubSeq(t, cut, Len(t)))

\* " ".join(tokens)
RECURSIVE join(_)
join(tokens) ==
    IF tokens = <<>> THEN <<>>
    ELSE IF Len(tokens) = 1 THEN tokens[1]
    ELSE tokens[1] \o <<" ">> \o join(Tail(tokens))

---------------------------------------------------------------------------
(* STATUS_OPTIONS and _parse_player_status_reason.                         *)

STATUS_OPTIONS == <<
    <<"G","a","m","e"," ","T","i","m","e"," ","D","e","c","i","s","i","o","n">>,
    <<"N","o","t"," ","W","i","t","h"," ","T","e","a","m">>,
    <<"Q","u","e","s","t","i","o","n","a","b","l","e">>,
    <<"P","r","o","b","a","b","l","e">>,
    <<"D","o","u","b","t","f","u","l">>,
    <<"A","v","a","i","l","a","b","l","e">>,
    <<"S","u","s","p","e","n","d","e","d">>,
    <<"O","u","t">> >>

\* \b at the gap after character i of text (i = 0: before the first character).
WordAt(text, k) == k \in 1..Len(text) /\ IsWordChar(text[k])
WordBoundary(text, i) == WordAt(text, i) # WordAt(text, i + 1)

\* rf"\b{re.escape(status)}\b" with re.I matches text[p .. p+Len(status)-1].
StatusMatchAt(status, text, p) ==
    /\ p >= 1
    /\ p + Len(status) - 1 <= Len(text)
    /\ lower(SubSeq(text, p, p + Len(status) - 1)) = lower(status)
    /\ WordBoundary(text, p - 1)
    /\ WordBoundary(text, p + Len(status) - 1)

\* re.search: the start of the leftmost match, 0 when there is none.
StatusSearch(status, text) ==
    LET hits == {p \in 1..Len(text) : StatusMatchAt(status, text, p)}
    IN  IF hits = {} THEN 0 ELSE SetMin(hits)

Triple(player, status, reason) ==
    [player |-> player, status |-> status, reason |-> reason]

RECURSIVE StatusLoop(_, _)

\* Mutant: the status is returned as it is written in the text.
StatusFoundMatchedCasing(status, text, p) ==
    Triple(OrNone(strip(SubSeq(text, 1, p - 1))),
           SubSeq(text, p, p + Len(status) - 1),
           OrNone(strip(SubSeq(text, p + Len(status), Len(text)))))

\* if match: player = text[:match.start()].strip(); reason = text[match.end():].strip();
\* return player or None, status, reason or None
StatusFound(status, text, p) ==
    Triple(OrNone(strip(SubSeq(text, 1, p - 1))),
           status,
           OrNone(strip(SubSeq(text, p + Len(status), Len(text)))))

StatusTried(status, text, p, i) ==
    IF p # 0 THEN StatusFound(status, text, p) ELSE StatusLoop(text, i + 1)

\* for status in STATUS_OPTIONS[i..]: ... return at the first status found.
StatusLoop(text, i) ==
    IF i > Len(STATUS_OPTIONS)
    THEN Triple(strip(text), None, None)
    ELSE StatusTried(STATUS_OPTIONS[i], text, StatusSearch(STATUS_OPTIONS[i], text), i)

_parse_player_status_reason(text) ==
    IF text = <<>> THEN Triple(None, None, None) ELSE StatusLoop(text, 1)

---------------------------------------------------------------------------
(* The report locator: _extract_report_metadata_from_url and               *)
(* _select_latest_report_link.                                             *)

AllDigits(s) == \A i \in 1..Len(s) : s[i] \in Digits

DigitVal(c) == CHOOSE n \in 0..9 : <<"0","1","2","3","4","5","6","7","8","9">>[n + 1] = c

DigitChar(n) == <<"0","1","2","3","4","5","6","7","8","9">>[n + 1]

\* int(s) of a string of digits
RECURSIVE int(_)
int(s) == IF s = <<>> THEN 0 ELSE 10 * int(SubSeq(s, 1, Len(s) - 1)) + DigitVal(s[Len(s)])

\* f"{n}" of a natural number
RECURSIVE str(_)
str(n) == IF n < 10 THEN <<DigitChar(n)>> ELSE str(n \div 10) \o <<DigitChar(n % 10)>>

\* f"{n:02d}"
str02(n) == IF n < 10 THEN <<"0", DigitChar(n)>> ELSE str(n)

\* The URL from the first "/" after "scheme://host" on; the URL itself without a
\* scheme.
AfterAuthority(url) ==
    LET sch == {i \in 1..(Len(url) - 2) : SubSeq(url, i, i + 2) = <<":", "/", "/">>}
        sl  == {i \in 1..Len(url) : sch # {} /\ i >= SetMin(sch) + 3 /\ url[i] = "/"}
    IN  IF sch = {} THEN url
        ELSE IF sl = {} THEN <<>>
        ELSE SubSeq(url, SetMin(sl), Len(url))

\* Up to the query or fragment.
BeforeQuery(url) ==
    LET stop == {i \in 1..Len(url) : url[i] \in {"?", "#"}}
    IN  IF stop = {} THEN url ELSE SubSeq(url, 1, SetMin(stop) - 1)

\* urlparse(url).path
urlpath(url) == BeforeQuery(AfterAuthority(url))

\* os.path.basename
basename(path) ==
    LET sl == {i \in 1..Len(path) : path[i] = "/"}
    IN  IF sl = {} THEN path ELSE SubSeq(path, SetMax(sl) + 1, Len(path))

Sub(s, p, n) == IF p >= 1 /\ p + n - 1 <= Len(s) THEN SubSeq(s, p, p + n - 1) ELSE <<>>

\* [-_]? and [:_]? : one position further when the separator is there.
SkipSep(s, p, seps) == IF p <= Len(s) /\ s[p] \in seps THEN p + 1 ELSE p

NoMatch == [ok |-> FALSE, g1 |-> <<>>, g2 |-> <<>>, g3 |-> <<>>]

\* re.search: of the attempts at positions 1, 2, ... the first that matches.
FirstMatch(attempts) ==
    LET good == {p \in DOMAIN attempts : attempts[p].ok}
    IN  IF good = {} THEN NoMatch ELSE attempts[SetMin(good)]

\* (\d{4})[-_]?(\d{2})[-_]?(\d{2}): the three groups as found at some position.
DateGroups(g1, g2, g3) ==
    [ok |-> Len(g1) = 4 /\ AllDigits(g1) /\ Len(g2) = 2 /\ AllDigits(g2)
            /\ Len(g3) = 2 /\ AllDigits(g3),
     g1 |-> g1, g2 |-> g2, g3 |-> g3]

DateMatchFrom(fn, p, q2) ==
    DateGroups(Sub(fn, p, 4), Sub(fn, q2, 2), Sub(fn, SkipSep(fn, q2 + 2, {"-", "_"}), 2))

DateMatchAt(fn, p) == DateMatchFrom(fn, p, SkipSep(fn, p + 4, {"-", "_"}))

\* (AM|PM) with re.I on the two characters g: the group upper-cased, or <<>>.
AmPm(g) ==
    IF g = <<"a", "m">> THEN <<"A", "M">>
    ELSE IF g = <<"p", "m">> THEN <<"P", "M">>
    ELSE <<>>

\* \s* from position p: the first position that holds no whitespace.
SkipSpaces(fn, p) ==
    LET rest == {i \in p..Len(fn) : ~IsSpace(fn[i])}
    IN  IF rest = {} THEN Len(fn) + 1 ELSE SetMin(rest)

\* \s*(AM|PM) at position p
AmPmAt(fn, p) == AmPm(lower(Sub(fn, SkipSpaces(fn, p), 2)))

TimeGroups(n, grp, g1, g2, g3) ==
    [ok |-> Len(g1) = n /\ AllDigits(g1)
            /\ (grp => Len(g2) = 2 /\ AllDigits(g2))
            /\ g3 # <<>>,
     g1 |-> g1, g2 |-> g2, g3 |-> g3]

\* (\d{1,2})(?:[:_]?(\d{2}))?\s*(AM|PM) at position p, with n digits in group 1 and
\* the optional group taken (at q, after the separator) or not.
TimeAltWith(fn, p, n, q) ==
    TimeGroups(n, TRUE, Sub(fn, p, n), Sub(fn, q, 2), AmPmAt(fn, q + 2))

TimeAltWithout(fn, p, n) ==
    TimeGroups(n, FALSE, Sub(fn, p, n), <<>>, AmPmAt(fn, p + n))

\* The alternatives in the order the backtracking matcher tries them (greedy first).
TimeAlts(fn, p) ==
    <<TimeAltWith(fn, p, 2, SkipSep(fn, p + 2, {":", "_"})), TimeAltWithout(fn, p, 2),
      TimeAltWith(fn, p, 1, SkipSep(fn, p + 1, {":", "_"})), TimeAltWithout(fn, p, 1)>>

TimeMatchAt(fn, p) == FirstMatch(TimeAlts(fn, p))

\* f"{g1}-{g2}-{g3}" of the date match, None without a match
ReportDate(m) ==
    IF m.ok THEN m.g1 \o <<"-">> \o m.g2 \o <<"-">> \o m.g3 ELSE None

\* f"{hour}:{minute:02d} {ampm}" of the time match, None without a match
ReportTime(m) ==
    IF m.ok
    THEN str(int(m.g1)) \o <<":">> \o str02(IF m.g2 = <<>> THEN 0 ELSE int(m.g2))
            \o <<" ">> \o m.g3
    ELSE None

MetaOfFilename(filename) ==
    [report_date |-> ReportDate(FirstMatch([p \in 1..Len(filename) |-> DateMatchAt(filename, p)])),
     report_time |-> ReportTime(FirstMatch([p \in 1..Len(filename) |-> TimeMatchAt(filename, p)]))]

_extract_report_metadata_from_url(url) == MetaOfFilename(basename(urlpath(url)))

\* datetime values are <<year, month, day, hour, minute>>.
datetime_min == <<1, 1, 1, 0, 0>>

IsLeap(y) == y % 4 = 0 /\ (y % 100 # 0 \/ y % 400 = 0)

DaysInMonth(y, m) ==
    IF m = 2 THEN (IF IsLeap(y) THEN 29 ELSE 28)
    ELSE IF m \in {4, 6, 9, 11} THEN 30 ELSE 31

\* datetime(y, m, d, h, mi) of fields that matched the format: ok = FALSE is ValueError.
MakeDatetime(y, m, d, hourOk, h24, mi) ==
    [ok |-> y >= 1 /\ m \in 1..12 /\ d >= 1 /\ d <= DaysInMonth(y, m)
            /\ hourOk /\ mi \in 0..59,
     dt |-> <<y, m, d, h24, mi>>]

\* datetime.strptime(s, "%Y-%m-%d") on s = dddd-dd-dd
strptime_date(s) ==
    MakeDatetime(int(SubSeq(s, 1, 4)), int(SubSeq(s, 6, 7)), int(SubSeq(s, 9, 10)),
                 TRUE, 0, 0)

\* %I and %p: the hour of the day of the 12-hour clock hour h
Hour24(h, pm) ==
    IF pm THEN (IF h = 12 THEN 12 ELSE h + 12) ELSE (IF h = 12 THEN 0 ELSE h)

StrptimeFields(s, colon, h) ==
    MakeDatetime(int(SubSeq(s, 1, 4)), int(SubSeq(s, 6, 7)), int(SubSeq(s, 9, 10)),
                 h \in 1..12, Hour24(h, s[colon + 4] = "P"),
                 int(SubSeq(s, colon + 1, colon + 2)))

StrptimeAtColon(s, colon) == StrptimeFields(s, colon, int(SubSeq(s, 12, colon - 1)))

\* datetime.strptime(s, "%Y-%m-%d %I:%M %p") on s = dddd-dd-dd h[h]:mm AM|PM
strptime_datetime(s) ==
    StrptimeAtColon(s, SetMin({i \in 12..Len(s) : s[i] = ":"}))

\* The try block of the loop body: the parse that applies to meta.
ParseMeta(meta) ==
    IF meta.report_time # None
    THEN strptime_datetime(meta.report_date \o <<" ">> \o meta.report_time)
    ELSE strptime_date(meta.report_date)

\* Mutant: no except clause; ok = FALSE is the ValueError leaving the function.
ValueErrorUncaught(parsed) == parsed

\* except ValueError: dt_value = datetime.min
ExceptValueError(parsed) ==
    IF parsed.ok THEN parsed ELSE [ok |-> TRUE, dt |-> datetime_min]

DtOfMeta(meta) ==
    IF meta.report_date # None
    THEN ExceptValueError(ParseMeta(meta))
    ELSE [ok |-> TRUE, dt |-> datetime_min]

\* dt_value of one link; ok = FALSE would be an exception leaving the loop body.
dt_value(link) == DtOfMeta(_extract_report_metadata_from_url(link))

\* Lexicographic order of two tuples of integers of the same length.
RECURSIVE TupleLess(_, _)
TupleLess(a, b) ==
    IF a = <<>> THEN FALSE
    ELSE IF Head(a) # Head(b) THEN Head(a) < Head(b)
    ELSE TupleLess(Tail(a), Tail(b))

\* (dt, idx, link) tuples under sort(reverse=True): a comes before b.
\* The indices differ, so the link is never compared.
ScoredBefore(a, b) ==
    \/ TupleLess(b.dt, a.dt)
    \/ a.dt = b.dt /\ a.idx > b.idx

ScoredItem(v, idx, link) == [ok |-> v.ok, dt |-> v.dt, idx |-> idx, link |-> link]

\* scored, after the loop
scored(ls) == [i \in 1..Len(ls) |-> ScoredItem(dt_value(ls[i]), i - 1, ls[i])]

NoError        == "no error"
NoLinksError   == "ValueError: No injury report links found"
StrptimeError  == "ValueError: strptime"
IndexError     == "IndexError: list index out of range"

\* scored.sort(reverse=True): the position in scored of the item sorted first
SortedFirst(sc) ==
    CHOOSE i \in 1..Len(sc) : \A j \in 1..Len(sc) : j # i => ScoredBefore(sc[i], sc[j])

\* scored.sort(reverse=True); return scored[0][2]
ReturnTop(sc) ==
    IF \E i \in 1..Len(sc) : ~sc[i].ok
    THEN [raised |-> StrptimeError, url |-> None]
    ELSE [raised |-> NoError, url |-> sc[SortedFirst(sc)].link]

\* Mutant: the guard on the empty list is missing, so scored[0] fails.
select_latest_unguarded(ls) ==
    IF ls = <<>>
    THEN [raised |-> IndexError, url |-> None]
    ELSE ReturnTop(scored(ls))

_select_latest_report_link(ls) ==
    IF ls = <<>>
    THEN [raised |-> NoLinksError, url |-> None]
    ELSE ReturnTop(scored(ls))

LinkPool == {
    <<"/","2","0","2","6","-","0","1","-","0","1","/","r">>,
    <<"/","2","0","2","5","-","0","1","-","0","5">>,
    <<"/","2","0","2","5","0","1","0","5">>,
    <<"/","2","0","2","5","-","0","1","-","1","5","_","0","5","P","M">>,
    <<"/","2","0","2","5","-","0","1","-","0","5","_","9","A","M">>,
    <<"/","2","0","2","5","-","1","3","-","0","1">>,
    <<"/","0","0","0","1","-","0","1","-","0","1">> }

RECURSIVE SeqsUpTo(_, _)
SeqsUpTo(S, n) ==
    IF n = 0 THEN {<<>>}
    ELSE SeqsUpTo(S, n - 1) \cup {Append(s, x) : s \in SeqsUpTo(S, n - 1), x \in S}

---------------------------------------------------------------------------
(* Dicts: entries and the context.  d.get(key) is Get(d, key).             *)

Get(d, key) == IF key \in DOMAIN d THEN d[key] ELSE None

Put(d, key, value) ==
    [k \in DOMAIN d \cup {key} |-> IF k = key THEN value ELSE d[k]]

ContextKeys == {"gameDate", "gameTime", "matchup", "team"}

EmptyContext ==
    [gameDate |-> None, gameTime |-> None, matchup |-> None, team |-> None,
     lastEntry |-> 0]

\* Mutant: a field the context holds replaces the entry's own value.
apply_context_overrides(entry, ctx) ==
    LET fill == {k \in ContextKeys : Truthy(ctx[k])}
    IN  [k \in DOMAIN entry \cup fill |-> IF k \in fill THEN ctx[k] ELSE entry[k]]

\* _apply_injury_context: the entry with its missing fields filled from the context
_apply_injury_context(entry, ctx) ==
    LET fill == {k \in ContextKeys : ~Truthy(Get(entry, k)) /\ Truthy(ctx[k])}
    IN  [k \in DOMAIN entry \cup fill |-> IF k \in fill THEN ctx[k] ELSE entry[k]]

\* _update_injury_context: the context after the entry, stored at index ref of the
\* heap, has been folded into it
\* Mutant: a context field that is set keeps its value.
update_context_keeps_first(entry, ctx, ref) ==
    [k \in DOMAIN ctx |->
        IF k = "lastEntry" THEN ref
        ELSE IF Truthy(Get(entry, k)) /\ ~Truthy(ctx[k]) THEN entry[k] ELSE ctx[k]]

_update_injury_context(entry, ctx, ref) ==
    [k \in DOMAIN ctx |->
        IF k = "lastEntry" THEN ref
        ELSE IF Truthy(Get(entry, k)) THEN entry[k] ELSE ctx[k]]

---------------------------------------------------------------------------
(* _normalize_header, _map_table_headers, _build_entries_from_table.       *)

\* text.replace("\n", " ")
ReplaceNewlines(s) == [i \in 1..Len(s) |-> IF s[i] = "\n" THEN " " ELSE s[i]]

\* re.sub(r"\s+", " ", s): every run of whitespace becomes one space
RECURSIVE CollapseSpaces(_)
CollapseSpaces(s) ==
    IF s = <<>> THEN <<>>
    ELSE IF IsSpace(s[1])
         THEN IF Len(s) >= 2 /\ IsSpace(s[2])
              THEN CollapseSpaces(Tail(s))
              ELSE <<" ">> \o CollapseSpaces(Tail(s))
         ELSE <<s[1]>> \o CollapseSpaces(Tail(s))

\* str(value or "")
StrOrEmpty(value) == IF value = None THEN <<>> ELSE value

_normalize_header(value) ==
    lower(strip(CollapseSpaces(ReplaceNewlines(StrOrEmpty(value)))))

alias_map ==
    (<<"g","a","m","e"," ","d","a","t","e">> :> "gameDate") @@
    (<<"g","a","m","e","d","a","t","e">> :> "gameDate") @@
    (<<"d","a","t","e">> :> "gameDate") @@
    (<<"g","a","m","e"," ","t","i","m","e">> :> "gameTime") @@
    (<<"g","a","m","e","t","i","m","e">> :> "gameTime") @@
    (<<"m","a","t","c","h","u","p">> :> "matchup") @@
    (<<"t","e","a","m">> :> "team") @@
    (<<"p","l","a","y","e","r"," ","n","a","m","e">> :> "playerName") @@
    (<<"p","l","a","y","e","r">> :> "playerName") @@
    (<<"c","u","r","r","e","n","t"," ","s","t","a","t","u","s">> :> "status") @@
    (<<"s","t","a","t","u","s">> :> "status") @@
    (<<"i","n","j","u","r","y","/","i","l","l","n","e","s","s">> :> "injury") @@
    (<<"i","n","j","u","r","y">> :> "injury") @@
    (<<"r","e","a","s","o","n">> :> "reason") @@
    (<<"r","e","m","a","r","k","s">> :> "notes") @@
    (<<"c","o","m","m","e","n","t">> :> "notes") @@
    (<<"n","o","t","e","s">> :> "notes") @@
    (<<"e","s","t","."," ","r","e","t","u","r","n"," ","d","a","t","e">> :> "returnDate") @@
    (<<"e","s","t"," ","r","e","t","u","r","n"," ","d","a","t","e">> :> "returnDate")

\* mapping of _map_table_headers: column (counted from 1) -> canonical name
HeaderMapping(normalized_headers) ==
    [idx \in {i \in 1..Len(normalized_headers) : normalized_headers[i] \in DOMAIN alias_map}
        |-> alias_map[normalized_headers[idx]]]

NormalizedHeaders(headers) == [i \in 1..Len(headers) |-> _normalize_header(headers[i])]

\* row_values of one row
RowValues(row) == [i \in 1..Len(row) |-> strip(ReplaceNewlines(StrOrEmpty(row[i])))]

\* f"col_{idx}" for the column counted from 1 (idx counts from 0)
ColLabel(i) == <<"c", "o", "l", "_">> \o str(i - 1)

\* header_label or f"col_{idx}"
RawLabel(normalized_headers, i) ==
    IF i <= Len(normalized_headers) /\ normalized_headers[i] # <<>>
    THEN normalized_headers[i]
    ELSE ColLabel(i)

\* The dict filled by the loop over the cells: a later cell overwrites an earlier
\* one stored under the same key.
RawOfRow(normalized_headers, row_values) ==
    [label \in {RawLabel(normalized_headers, i) : i \in 1..Len(row_values)} |->
        row_values[SetMax({i \in 1..Len(row_values) :
                              RawLabel(normalized_headers, i) = label})]]

\* Mutant: the cells of the columns without a canonical name are stored as well,
\* under "other".
EntryWithUnmappedColumns(mapping, normalized_headers, row_values) ==
    LET cols     == DOMAIN mapping \cap (1..Len(row_values))
        name(i)  == IF i \in cols THEN mapping[i] ELSE "other"
    IN  [k \in {name(i) : i \in 1..Len(row_values)} \cup {"raw"} |->
            IF k = "raw" THEN RawOfRow(normalized_headers, row_values)
            ELSE row_values[SetMax({i \in 1..Len(row_values) : name(i) = k})]]

\* entry[mapping[idx]] = value for the mapped columns; entry["raw"] = raw
EntryOfRow(mapping, normalized_headers, row_values) ==
    LET cols == DOMAIN mapping \cap (1..Len(row_values))
    IN  [k \in {mapping[i] : i \in cols} \cup {"raw"} |->
            IF k = "raw" THEN RawOfRow(normalized_headers, row_values)
            ELSE row_values[SetMax({i \in cols : mapping[i] = k})]]

PlayerHeaders == { <<"p","l","a","y","e","r"," ","n","a","m","e">>, <<"p","l","a","y","e","r">> }

\* The three guards of the loop over the rows: TRUE when the row is skipped.
RowSkipped(row, row_values) ==
    \/ row = <<>>
    \/ \A i \in 1..Len(row_values) : row_values[i] = <<>>
    \/ \E i \in 1..Len(row_values) : _normalize_header(row_values[i]) \in PlayerHeaders

RECURSIVE RowsLoop(_, _, _)
RowsLoop(mapping, normalized_headers, rows) ==
    IF rows = <<>> THEN <<>>
    ELSE IF RowSkipped(Head(rows), RowValues(Head(rows)))
         THEN RowsLoop(mapping, normalized_headers, Tail(rows))
         ELSE <<EntryOfRow(mapping, normalized_headers, RowValues(Head(rows)))>>
                 \o RowsLoop(mapping, normalized_headers, Tail(rows))

BuildWithHeaders(normalized_headers, table) ==
    IF DOMAIN HeaderMapping(normalized_headers) = {}
    THEN <<>>
    ELSE RowsLoop(HeaderMapping(normalized_headers), normalized_headers, Tail(table))

_build_entries_from_table(table) ==
    IF Len(table) < 2 THEN <<>>
    ELSE BuildWithHeaders(NormalizedHeaders(table[1]), table)

---------------------------------------------------------------------------
(* _clean_injury_line.                                                     *)

\* \d+ from position p: the first position that holds no digit
SkipDigits(s, p) ==
    LET rest == {i \in p..Len(s) : s[i] \notin Digits}
    IN  IF rest = {} THEN Len(s) + 1 ELSE SetMin(rest)

\* \s* of the marker with spaces, nothing in the marker without
MarkerGap(s, p, spaced) == IF spaced THEN SkipSpaces(s, p) ELSE p

\* \d+ at p, the end of the marker: the position after it, 0 without a match
MarkerSecondNumber(s, p) == IF SkipDigits(s, p) = p THEN 0 ELSE SkipDigits(s, p)

\* of\s*\d+ at p
MarkerOf(s, p, spaced) ==
    IF lower(Sub(s, p, 2)) # <<"o", "f">> THEN 0
    ELSE MarkerSecondNumber(s, MarkerGap(s, p + 2, spaced))

\* \d+\s*of\s*\d+ at p
MarkerFirstNumber(s, p, spaced) ==
    IF SkipDigits(s, p) = p THEN 0
    ELSE MarkerOf(s, MarkerGap(s, SkipDigits(s, p), spaced), spaced)

\* Page\s*\d+\s*of\s*\d+ (spaced) or Page\d+of\d+ at p, with re.I: the position
\* after the match, 0 without a match
PageMarkerAt(s, p, spaced) ==
    IF lower(Sub(s, p, 4)) # <<"p", "a", "g", "e">> THEN 0
    ELSE MarkerFirstNumber(s, MarkerGap(s, p + 4, spaced), spaced)

\* \s*<marker>\s*$ matches from p to the end of s
MarkerEndsAt(s, after) == after # 0 /\ SkipSpaces(s, after) = Len(s) + 1

TrailingMarkerFrom(s, p, spaced) ==
    MarkerEndsAt(s, PageMarkerAt(s, SkipSpaces(s, p), spaced))

\* re.sub(r"\s*<marker>\s*$", "", s)
StripTrailingMarker(s, spaced) ==
    LET hits == {p \in 1..Len(s) : TrailingMarkerFrom(s, p, spaced)}
    IN  IF hits = {} THEN s ELSE SubSeq(s, 1, SetMin(hits) - 1)

_clean_injury_line(line) ==
    IF line = <<>> THEN None
    ELSE IF PageMarkerAt(line, 1, TRUE) # 0 THEN None
    ELSE OrNone(strip(StripTrailingMarker(StripTrailingMarker(line, TRUE), FALSE)))

---------------------------------------------------------------------------
(* _parse_injury_report_text: the body of the loop over the lines.         *)
(* The state of the parse is a record st of the heap of entries, the       *)
(* context dict and the locals; st.page and st.origin are observations.    *)

\* line.lower().startswith("injury report")
IsTitleLine(line) == startswith(lower(line), <<"i","n","j","u","r","y"," ","r","e","p","o","r","t">>)

\* line.replace(" ", "").lower().startswith("gamedate")
IsColumnTitleLine(line) ==
    startswith(lower(SelectSeq(line, LAMBDA c : c # " ")), <<"g","a","m","e","d","a","t","e">>)

\* \S+ from position p: the first position that holds whitespace
TokenEnd(s, p) ==
    LET sp == {i \in p..Len(s) : IsSpace(s[i])}
    IN  IF sp = {} THEN Len(s) + 1 ELSE SetMin(sp)

NoFields == [ok |-> FALSE, toks |-> <<>>, rest |-> <<>>]

ConsFields(tok, r) == [ok |-> r.ok, toks |-> <<tok>> \o r.toks, rest |-> r.rest]

\* (\S+)\s+ n times from position p, then (.*)$: the groups, in toks and rest.
RECURSIVE Fields(_, _, _)
FieldsFrom(s, p, e, n) ==
    IF e = p \/ SkipSpaces(s, e) = e THEN NoFields
    ELSE ConsFields(SubSeq(s, p, e - 1), Fields(s, SkipSpaces(s, e), n - 1))

Fields(s, p, n) ==
    IF n = 0 THEN [ok |-> TRUE, toks |-> <<>>, rest |-> SubSeq(s, p, Len(s))]
    ELSE FieldsFrom(s, p, TokenEnd(s, p), n)

\* \d{2}/\d{2}/\d{4}
DateShape(t) ==
    /\ Len(t) = 10
    /\ \A i \in {1, 2, 4, 5, 7, 8, 9, 10} : t[i] \in Digits
    /\ t[3] = "/" /\ t[6] = "/"

\* \d{1,2}:\d{2}\(ET\)
TimeShape(t) ==
    /\ Len(t) \in {8, 9}
    /\ \A i \in 1..(Len(t) - 7) : t[i] \in Digits
    /\ t[Len(t) - 6] = ":"
    /\ t[Len(t) - 5] \in Digits /\ t[Len(t) - 4] \in Digits
    /\ SubSeq(t, Len(t) - 3, Len(t)) = <<"(", "E", "T", ")">>

\* ^(\d{2}/\d{2}/\d{4})\s+(\d{1,2}:\d{2}\(ET\))\s+(\S+)\s+(\S+)\s+(.*)$
DateMatchOf(f) == [f EXCEPT !.ok = f.ok /\ DateShape(f.toks[1]) /\ TimeShape(f.toks[2])]
date_match(line) == DateMatchOf(Fields(line, 1, 4))

\* ^(\d{1,2}:\d{2}\(ET\))\s+(\S+)\s+(\S+)\s+(.*)$
TimeMatchOf(f) == [f EXCEPT !.ok = f.ok /\ TimeShape(f.toks[1])]
time_match(line) == TimeMatchOf(Fields(line, 1, 3))

\* has_status
HasStatus(line) ==
    \E i \in 1..Len(STATUS_OPTIONS) : StatusSearch(STATUS_OPTIONS[i], line) # 0

\* The dict literal that the three branches build from the locals.
LineEntry(st, t) ==
    [gameDate |-> st.current_date, gameTime |-> st.current_time,
     matchup |-> st.current_matchup, team |-> st.current_team,
     playerName |-> t.player, status |-> t.status, reason |-> t.reason]

\* The context fields an entry got from its own line or row (None: not from it).
Own(d, t, m, tm) == [gameDate |-> d, gameTime |-> t, matchup |-> m, team |-> tm]

\* What is remembered of an emitted entry: the page and the parser, the context
\* fields its own line or row gave it, the four context fields of the entry as it
\* was built (before _apply_injury_context), the context it met and the context
\* _update_injury_context left.
Origin(st, parser, own, built, after) ==
    [page |-> st.page, parser |-> parser, own |-> own,
     built |-> [k \in ContextKeys |-> Get(built, k)],
     ctx |-> st.context, after |-> after]

\* entries.append(entry); last_entry = entry; _update_injury_context(entry, context)
AppendEntry(st, e, own, built) ==
    [st EXCEPT !.entries = Append(@, e),
               !.last_entry = Len(st.entries) + 1,
               !.context = _update_injury_context(e, @, Len(st.entries) + 1),
               !.origin = Append(@, Origin(st, "line", own, built,
                                           _update_injury_context(e, st.context,
                                                                  Len(st.entries) + 1)))]

\* _apply_injury_context(entry, context), then the three statements above
EmitEntry(st, entry, own) ==
    AppendEntry(st, _apply_injury_context(entry, st.context), own, entry)

\* if date_match: ...
FullHeaderSet(st, m) ==
    [st EXCEPT !.current_date = m.toks[1], !.current_time = m.toks[2],
               !.current_matchup = m.toks[3], !.current_team = m.toks[4]]

FullHeaderEmit(st, m) ==
    EmitEntry(st, LineEntry(st, _parse_player_status_reason(strip(m.rest))),
              Own(m.toks[1], m.toks[2], m.toks[3], m.toks[4]))

FullHeaderBranch(st, m) == FullHeaderEmit(FullHeaderSet(st, m), m)

\* if time_match: ...
\* Mutant: groups 2 and 3 of the match are taken in the wrong order.
PartialHeaderSetSwapped(st, m) ==
    [st EXCEPT !.current_time = m.toks[1], !.current_matchup = m.toks[3],
               !.current_team = m.toks[2]]

PartialHeaderSet(st, m) ==
    [st EXCEPT !.current_time = m.toks[1], !.current_matchup = m.toks[2],
               !.current_team = m.toks[3]]

PartialHeaderEmit(st, m) ==
    EmitEntry(st, LineEntry(st, _parse_player_status_reason(strip(m.rest))),
              Own(None, m.toks[1], m.toks[2], m.toks[3]))

PartialHeaderBranch(st, m) == PartialHeaderEmit(PartialHeaderSet(st, m), m)

\* Mutant: the line is joined to the reason without the separator.
JoinReasonNoSeparator(reason, line) ==
    IF Truthy(reason) THEN reason \o line ELSE line

\* existing_reason = last_entry.get("reason") or ""; f"{existing_reason}{separator}{line}"
JoinReason(reason, line) ==
    IF Truthy(reason) THEN reason \o <<" ">> \o line ELSE line

\* Mutant: a continuation line extends the first entry of the output.
FirstEntryAsTail(st) == IF st.last_entry = 0 THEN 0 ELSE 1

\* last_entry, the entry a continuation line extends (0: there is none)
TailEntry(st) == st.last_entry

\* if "," not in line and not has_status: ...
ContinuationBranch(st, line) ==
    IF TailEntry(st) = 0 THEN st
    ELSE [st EXCEPT !.entries[TailEntry(st)] =
                        Put(@, "reason", JoinReason(Get(@, "reason"), line))]

\* if player or status or reason: ...
DataRowEmit(st, t, ownTeam) ==
    IF Truthy(t.player) \/ Truthy(t.status) \/ Truthy(t.reason)
    THEN EmitEntry(st, LineEntry(st, t), Own(None, None, None, ownTeam))
    ELSE st

\* tokens = line.split(); if "," not in tokens[0]: current_team = tokens[0]; ...
DataRowTokens(st, line, tokens) ==
    IF tokens = <<>> THEN st
    ELSE IF ~Contains(tokens[1], ",")
    THEN DataRowEmit([st EXCEPT !.current_team = tokens[1]],
                     _parse_player_status_reason(strip(join(Tail(tokens)))),
                     tokens[1])
    ELSE DataRowEmit(st, _parse_player_status_reason(line), None)

DataRowBranch(st, line) == DataRowTokens(st, line, split(line))

\* The loop body from the two re.match calls on.
PartialOrLater(st, line, tm) ==
    IF tm.ok THEN PartialHeaderBranch(st, tm)
    ELSE IF ~Contains(line, ",") /\ ~HasStatus(line) THEN ContinuationBranch(st, line)
    ELSE DataRowBranch(st, line)

FullOrLater(st, line, dm) ==
    IF dm.ok THEN FullHeaderBranch(st, dm)
    ELSE PartialOrLater(st, line, time_match(line))

CleanedLine(st, line) ==
    IF line = None THEN st ELSE FullOrLater(st, line, date_match(line))

StrippedLine(st, line) ==
    IF line = <<>> \/ IsTitleLine(line) \/ IsColumnTitleLine(line) THEN st
    ELSE CleanedLine(st, _clean_injury_line(line))

\* One iteration of "for raw_line in (text or "").splitlines()".
LineBody(st, raw_line) == StrippedLine(st, strip(raw_line))

---------------------------------------------------------------------------
(* _extract_injury_report_entries: the loop over the tables of a page.     *)

OwnOfRow(entry) ==
    Own(Get(entry, "gameDate"), Get(entry, "gameTime"),
        Get(entry, "matchup"), Get(entry, "team"))

\* _update_injury_context(entry, context), and the entry's place in entries
TableAppend(st, e, own, built) ==
    [st EXCEPT !.entries = Append(@, e),
               !.context = _update_injury_context(e, @, Len(st.entries) + 1),
               !.origin = Append(@, Origin(st, "table", own, built,
                                           _update_injury_context(e, st.context,
                                                                  Len(st.entries) + 1)))]

\* One iteration of "for entry in table_entries".
TableEmit(st, entry) ==
    TableAppend(st, _apply_injury_context(entry, st.context), OwnOfRow(entry), entry)

RECURSIVE TableEntriesLoop(_, _)
TableEntriesLoop(st, table_entries) ==
    IF table_entries = <<>> THEN st
    ELSE TableEntriesLoop(TableEmit(st, Head(table_entries)), Tail(table_entries))

\* One iteration of "for table in tables".
TableBody(st, table) == TableEntriesLoop(st, _build_entries_from_table(table))

\* Mutant: the tables of a page are read whatever the line parser returned.
AlwaysFallback(n, start) == TRUE

\* if not text_entries: the entries appended since the page began are text_entries
TextEntriesEmpty(n, start) == n = start

---------------------------------------------------------------------------
(* Values of the variables of the parts a specification does not run.      *)

NoLocals ==
    [current_date |-> None, current_time |-> None, current_matchup |-> None,
     current_team |-> None, last_entry |-> 0]

NoStep ==
    [kind |-> "none", prev |-> "none", line |-> <<>>, table |-> <<>>,
     pageEntries |-> <<>>,
     before |-> [entries |-> <<>>, context |-> EmptyContext, locals |-> NoLocals]]

\* The frame of a call that has not begun.
NewRun ==
    [pc |-> "start", page |-> 0, linesLeft |-> 0, entries |-> <<>>,
     context |-> EmptyContext,
     current_date |-> None, current_time |-> None, current_matchup |-> None,
     current_team |-> None, last_entry |-> 0, pageStart |-> 0, tables |-> <<>>,
     origin |-> <<>>, doc |-> <<>>, overlapped |-> FALSE]

TwinIdle == runs = <<NewRun, NewRun>>

\* The request before it begins.
NewRequest ==
    [pc |-> "start", steps |-> <<>>,
     indexRaised |-> FALSE, indexStatus |-> 0, hrefs |-> <<>>,
     pdfRaised |-> FALSE, pdfStatus |-> 0, extractRaised |-> FALSE,
     links |-> <<>>, report_url |-> None,
     status |-> 0, detail |-> "", report |-> None, entries |-> <<>>]

EpIdle == ep = NewRequest

NoExc   == "no exception"
NoValue == "no value"

\* The call of _with_retries before it begins.
NewRetry ==
    [pc |-> "idle", retries |-> 0, attempt |-> 0, last_exc |-> NoExc,
     log |-> <<>>, sleeps |-> 0, result |-> NoValue, raised |-> NoExc]

\* Unset environment variable, no proxy.
Unset == "<unset>"

\* The threads that take the proxy lock.
Threads == {"request", "startup", "loop"}

\* The process before the application starts.
NewProxy ==
    [enabled |-> FALSE, started |-> FALSE, locked |-> FALSE,
     http |-> Unset, https |-> Unset, pool |-> <<>>, index |-> 0,
     pc |-> [t \in Threads |-> "idle"],
     prev |-> [http |-> Unset, https |-> Unset], proxy |-> Unset,
     entry |-> [http |-> Unset, https |-> Unset], raised |-> FALSE,
     last |-> "none"]

SvcIdle == rt = NewRetry /\ px = NewProxy

SelIdle ==
    links = <<>> /\ selPc = "idle" /\ selResult = None /\ selErr = NoError

SplitIdle ==
    /\ splitText = <<>> /\ splitPc = "idle" /\ splitOut = Triple(None, None, None)
    /\ splitOrder = STATUS_OPTIONS

PipeIdle ==
    /\ pc = "idle" /\ pageNo = 0 /\ linesLeft = 0 /\ entries = <<>>
    /\ context = EmptyContext
    /\ current_date = None /\ current_time = None
    /\ current_matchup = None /\ current_team = None
    /\ last_entry = 0 /\ pageStart = 0 /\ tables = <<>>
    /\ origin = <<>> /\ lastStep = NoStep

---------------------------------------------------------------------------
(* SpecSelect: one call of _select_latest_report_link on any list of at    *)
(* most MaxLinks links of LinkPool.                                        *)

InitSelect ==
    /\ links \in SeqsUpTo(LinkPool, MaxLinks)
    /\ selPc = "call" /\ selResult = None /\ selErr = NoError
    /\ SplitIdle /\ PipeIdle /\ TwinIdle /\ EpIdle /\ SvcIdle

SelectReturn(r) ==
    /\ selPc' = IF r.raised = NoError THEN "returned" ELSE "raised"
    /\ selResult' = r.url
    /\ selErr' = r.raised

SelectLatest ==
    /\ selPc = "call"
    /\ SelectReturn(_select_latest_report_link(links))
    /\ UNCHANGED <<links, splitVars, pipeVars, twinVars, epVars, svcVars>>

NextSelect == SelectLatest

SpecSelect == InitSelect /\ [][NextSelect]_vars

---------------------------------------------------------------------------
(* SpecSplit: one call of _parse_player_status_reason on any text made of  *)
(* at most MaxPieces pieces.                                               *)

\* The positions in the list options of the labels found in text.
FoundIn(options, text) == {i \in 1..Len(options) : StatusSearch(options[i], text) # 0}

SplitAtFirst(options, text, found) ==
    IF found = {} THEN Triple(strip(text), None, None)
    ELSE StatusFound(options[SetMin(found)], text,
                     StatusSearch(options[SetMin(found)], text))

\* The body of _parse_player_status_reason with the list it scans as an argument:
\* the split at the first label of the list that is found in text.
SplitWith(options, text) ==
    IF text = <<>> THEN Triple(None, None, None)
    ELSE SplitAtFirst(options, text, FoundIn(options, text))

SplitPieces == {
    <<"A">>,
    <<" ">>,
    <<",">>,
    <<"_">>,
    <<"O","u","t">>,
    <<" ","o","U","T">>,
    <<"p","R","O","B","A","B","L","E">>,
    <<"N","o","t"," ","W","i","t","h"," ","T","e","a","m">> }

SplitTexts == {Concat(ps) : ps \in SeqsUpTo(SplitPieces, MaxPieces)}

InitSplit ==
    /\ splitText \in SplitTexts
    /\ splitPc = "call" /\ splitOut = Triple(None, None, None)
    /\ splitOrder = STATUS_OPTIONS
    /\ SelIdle /\ PipeIdle /\ TwinIdle /\ EpIdle /\ SvcIdle

SplitCall ==
    /\ splitPc = "call"
    /\ splitOut' = _parse_player_status_reason(splitText)
    /\ splitPc' = "returned"
    /\ UNCHANGED <<splitText, splitOrder, selVars, pipeVars, twinVars, epVars, svcVars>>

NextSplit == SplitCall

SpecSplit == InitSplit /\ [][NextSplit]_vars

---------------------------------------------------------------------------
(* SpecVocab: one call of the splitter with the labels of STATUS_OPTIONS   *)
(* listed in another order.                                                *)

\* The list that holds the labels of STATUS_OPTIONS in the order perm.
Reordered(perm) == [i \in 1..Len(STATUS_OPTIONS) |-> STATUS_OPTIONS[perm[i]]]

\* The orders that leave all but at most MaxMoved labels at their place.
VocabularyOrders ==
    {Reordered(perm) :
        perm \in {q \in Permutations(1..Len(STATUS_OPTIONS)) :
                    Cardinality({i \in 1..Len(STATUS_OPTIONS) : q[i] # i}) <= MaxMoved}}

VocabPieces == {
    <<"O","u","t">>,
    <<" ","p","R","O","B","A","B","L","E"," ">> }

VocabTexts == {Concat(ps) : ps \in SeqsUpTo(VocabPieces, MaxVocabPieces)}

InitVocab ==
    /\ splitText \in VocabTexts
    /\ splitOrder \in VocabularyOrders
    /\ splitPc = "call" /\ splitOut = Triple(None, None, None)
    /\ SelIdle /\ PipeIdle /\ TwinIdle /\ EpIdle /\ SvcIdle

SplitCallWith ==
    /\ splitPc = "call"
    /\ splitOut' = SplitWith(splitOrder, splitText)
    /\ splitPc' = "returned"
    /\ UNCHANGED <<splitText, splitOrder, selVars, pipeVars, twinVars, epVars, svcVars>>

NextVocab == SplitCallWith

SpecVocab == InitVocab /\ [][NextVocab]_vars

---------------------------------------------------------------------------
(* Spec: one call of _extract_injury_report_entries on any document of at  *)
(* most MaxPages pages and MaxLines text lines, the lines drawn from       *)
(* LinePool and the tables of a page from TablePool.                       *)

LinePool == {
    <<"0","1","/","1","5","/","2","0","2","5"," ","7",":","0","0","(","E","T",")"," ","A","@","B"," ","A"," ","J"," ","O","u","t"," ","k">>,
    <<"0","2","/","1","6","/","2","0","2","5"," ","8",":","3","0","(","E","T",")"," ","C","@","D"," ","C"," ","P">>,
    <<"9",":","0","0","(","E","T",")"," ","E","@","F"," ","E"," ","Q"," ","P","r","o","b","a","b","l","e">>,
    <<"s","o","r","e">>,
    <<"G"," ","R",","," ","S"," ","D","o","u","b","t","f","u","l"," ","x">>,
    <<"T",","," ","U"," ","O","u","t">>,
    <<"O","u","t">>,
    <<"I","n","j","u","r","y"," ","R","e","p","o","r","t",":"," ","1">>,
    <<"G","a","m","e"," ","D","a","t","e"," ","T","e","a","m">>,
    <<"P","a","g","e"," ","2"," ","o","f"," ","3">>,
    <<"a","c","h","e"," ","P","a","g","e"," ","1"," ","o","f"," ","2">> }

TablePool == {
    <<<<<<"P","l","a","y","e","r"," ","N","a","m","e">>, <<"C","u","r","r","e","n","t"," ","S","t","a","t","u","s">>, <<"N","o","t","e","s">>>>,
       <<<<"A","."," ","P","l","a","y","e","r">>, <<"O","u","t">>, <<"k","n","e","e">>>>>>,
    <<<<<<"T","e","a","m">>, <<"N","o","t","e","s">>>>,
       <<<<"L","A","L">>, <<"x">>>>>>,
    <<<<<<"P","l","a","y","e","r">>, <<"S","t","a","t","u","s">>>>,
       <<<<"B">>, <<"G","T","D">>>>>>,
    <<<<<<"T","e","a","m">>, <<"T","e","a","m">>, <<>>>>,
       <<<<"T","e","a","m">>, <<"X">>, <<"y">>, <<"z">>>>,
       <<<<>>, <<>>, <<>>>>,
       <<<<"D">>, <<"E">>, <<"F">>, <<"G">>>>>>,
    <<<<<<"F","o","o">>>>,
       <<<<"b","a","r">>>>>>,
    <<<<<<"G","a","m","e"," ","D","a","t","e">>, <<"P","l","a","y","e","r">>>>,
       <<<<"G","a","m","e"," ","D","a","t","e">>, <<"P","l","a","y","e","r">>>>,
       <<<<"0","3","/","0","1","/","2","0","2","5">>, None>>>> }

ParseState ==
    [entries |-> entries, context |-> context,
     current_date |-> current_date, current_time |-> current_time,
     current_matchup |-> current_matchup, current_team |-> current_team,
     last_entry |-> last_entry, origin |-> origin, page |-> pageNo]

SetParseState(st) ==
    /\ entries' = st.entries
    /\ context' = st.context
    /\ current_date' = st.current_date
    /\ current_time' = st.current_time
    /\ current_matchup' = st.current_matchup
    /\ current_team' = st.current_team
    /\ last_entry' = st.last_entry
    /\ origin' = st.origin

\* The observation of a step: its kind, the kind of the step before it, the line
\* or the table it processed, the heap as it was when the page of the step began,
\* and the heap, the context and the locals as they were before the step.
Locals ==
    [current_date |-> current_date, current_time |-> current_time,
     current_matchup |-> current_matchup, current_team |-> current_team,
     last_entry |-> last_entry]

Step(kind, line, table) ==
    [kind |-> kind, prev |-> lastStep.kind, line |-> line, table |-> table,
     pageEntries |-> IF kind = "beginPage" THEN entries ELSE lastStep.pageEntries,
     before |-> [entries |-> entries, context |-> context, locals |-> Locals]]

\* entries = []; context = {}
Init ==
    /\ pc = "start" /\ pageNo = 0 /\ linesLeft = MaxLines
    /\ entries = <<>> /\ context = EmptyContext
    /\ current_date = None /\ current_time = None
    /\ current_matchup = None /\ current_team = None
    /\ last_entry = 0 /\ pageStart = 0 /\ tables = <<>>
    /\ origin = <<>> /\ lastStep = NoStep
    /\ SelIdle /\ SplitIdle /\ TwinIdle /\ EpIdle /\ SvcIdle

\* Mutant: every page starts from an empty context.
PageContextFresh(ctx) == EmptyContext

\* context = context or {}: the context the page's text is parsed with
PageContext(ctx) == ctx

\* Mutant: a page starts without a last entry.
NoCarriedLastEntry(ctx) == 0

\* last_entry = context.get("lastEntry")
CarriedLastEntry(ctx) == ctx.lastEntry

\* The next page of the document: the call of _parse_injury_report_text on its
\* text, up to the loop over the lines.
BeginPage ==
    /\ pc \in {"start", "pageDone"}
    /\ pageNo < MaxPages
    /\ pageNo' = pageNo + 1
    /\ pageStart' = Len(entries)
    /\ current_date' = context.gameDate
    /\ current_time' = context.gameTime
    /\ current_matchup' = context.matchup
    /\ current_team' = context.team
    /\ last_entry' = CarriedLastEntry(context)
    /\ context' = PageContext(context)
    /\ pc' = "lines"
    /\ lastStep' = Step("beginPage", <<>>, <<>>)
    /\ UNCHANGED <<linesLeft, entries, tables, origin, selVars, splitVars, twinVars, epVars, svcVars>>

\* One line of the page's text goes through the loop body.
ParseLine ==
    /\ pc = "lines"
    /\ linesLeft > 0
    /\ \E raw_line \in LinePool :
          /\ SetParseState(LineBody(ParseState, raw_line))
          /\ lastStep' = Step("line", raw_line, <<>>)
    /\ linesLeft' = linesLeft - 1
    /\ UNCHANGED <<pc, pageNo, pageStart, tables, selVars, splitVars, twinVars, epVars, svcVars>>

\* The text has no more lines: context["lastEntry"] = last_entry, the return,
\* entries.extend(text_entries), and page.extract_tables() when it is called.
EndText ==
    /\ pc = "lines"
    /\ context' = [context EXCEPT !.lastEntry = last_entry]
    /\ current_date' = None /\ current_time' = None
    /\ current_matchup' = None /\ current_team' = None
    /\ last_entry' = 0
    /\ IF TextEntriesEmpty(Len(entries), pageStart)
       THEN \E ts \in SeqsUpTo(TablePool, MaxTables) :
               /\ tables' = ts
               /\ pc' = IF ts = <<>> THEN "pageDone" ELSE "tables"
       ELSE tables' = <<>> /\ pc' = "pageDone"
    /\ lastStep' = Step("endText", <<>>, <<>>)
    /\ UNCHANGED <<pageNo, linesLeft, entries, pageStart, origin, selVars, splitVars, twinVars, epVars, svcVars>>

\* One table of the page goes through the loop body.
TableStep ==
    /\ pc = "tables"
    /\ SetParseState(TableBody(ParseState, Head(tables)))
    /\ tables' = Tail(tables)
    /\ pc' = IF Tail(tables) = <<>> THEN "pageDone" ELSE "tables"
    /\ lastStep' = Step("table", <<>>, Head(tables))
    /\ UNCHANGED <<pageNo, linesLeft, pageStart, selVars, splitVars, twinVars, epVars, svcVars>>

\* The document has no more pages: return entries.
Finish ==
    /\ pc \in {"start", "pageDone"}
    /\ pc' = "done"
    /\ lastStep' = Step("finish", <<>>, <<>>)
    /\ UNCHANGED <<pageNo, linesLeft, entries, context, current_date, current_time,
                   current_matchup, current_team, last_entry, pageStart, tables,
                   origin, selVars, splitVars, twinVars, epVars, svcVars>>

\* page.extract_text() raises on the next page: no handler encloses the call, the
\* exception leaves _extract_injury_report_entries and nothing is returned.
TextFails ==
    /\ pc \in {"start", "pageDone"}
    /\ pageNo < MaxPages
    /\ pageNo' = pageNo + 1
    /\ pc' = "raised"
    /\ lastStep' = Step("textFails", <<>>, <<>>)
    /\ UNCHANGED <<linesLeft, entries, context, current_date, current_time,
                   current_matchup, current_team, last_entry, pageStart, tables,
                   origin, selVars, splitVars, twinVars, epVars, svcVars>>

\* page.extract_tables() raises after the text of the page gave no entry: as above.
TablesFail ==
    /\ pc = "lines"
    /\ TextEntriesEmpty(Len(entries), pageStart)
    /\ context' = [context EXCEPT !.lastEntry = last_entry]
    /\ current_date' = None /\ current_time' = None
    /\ current_matchup' = None /\ current_team' = None
    /\ last_entry' = 0
    /\ pc' = "raised"
    /\ lastStep' = Step("tablesFail", <<>>, <<>>)
    /\ UNCHANGED <<pageNo, linesLeft, entries, pageStart, tables, origin,
                   selVars, splitVars, twinVars, epVars, svcVars>>

Next ==
    BeginPage \/ ParseLine \/ EndText \/ TableStep \/ Finish \/ TextFails \/ TablesFail

Spec == Init /\ [][Next]_vars

---------------------------------------------------------------------------
(* SpecTwin: two calls of _extract_injury_report_entries whose steps        *)
(* interleave in any order.  Each call has its own frame: entries and       *)
(* context are locals of the function, the locals of                        *)
(* _parse_injury_report_text are locals of its call.  Each call reads a     *)
(* document of its own, recorded in doc as it is read.                      *)

TwinLinePool == {
    <<"T",","," ","U"," ","O","u","t">>,
    <<"0","1","/","1","5","/","2","0","2","5"," ","7",":","0","0","(","E","T",")"," ","A","@","B"," ","A"," ","J"," ","O","u","t"," ","k">> }

TwinTablePool == {
    <<<<<<"T","e","a","m">>, <<"N","o","t","e","s">>>>,
      <<<<"L","A","L">>, <<"x">>>>>> }

\* Mutant: the context is a dict shared by the calls (a mutable default argument).
ContextLeftByOther(rs, r) == [rs[3 - r].context EXCEPT !.lastEntry = 0]

\* context: dict = {}
FreshContext(rs, r) == EmptyContext

\* Mutant: the list is shared by the calls (a mutable default argument).
EntriesLeftByOther(rs, r) == rs[3 - r].entries

\* entries: list[dict] = []
FreshEntries(rs, r) == <<>>

\* The locals of _parse_injury_report_text, read from the context at its call.
EnterPage(st) ==
    [st EXCEPT !.page = @ + 1,
               !.pageStart = Len(st.entries),
               !.current_date = st.context.gameDate,
               !.current_time = st.context.gameTime,
               !.current_matchup = st.context.matchup,
               !.current_team = st.context.team,
               !.last_entry = st.context.lastEntry]

\* context["lastEntry"] = last_entry; return entries, context
LeaveText(st) ==
    [st EXCEPT !.context = [@ EXCEPT !.lastEntry = st.last_entry],
               !.current_date = None, !.current_time = None,
               !.current_matchup = None, !.current_team = None,
               !.last_entry = 0]

\* The step of call r is taken while the other call is in progress.
Mark(rs, r, st) ==
    [st EXCEPT !.overlapped = @ \/ rs[3 - r].pc \notin {"start", "done"}]

SetRun(r, st) == runs' = [runs EXCEPT ![r] = Mark(runs, r, st)]

NewPage == [lines |-> <<>>, tables |-> <<>>]

TwinCall(r) ==
    /\ runs[r].pc = "start"
    /\ SetRun(r, [runs[r] EXCEPT !.pc = "called",
                                 !.linesLeft = MaxLines - 1,
                                 !.entries = FreshEntries(runs, r),
                                 !.context = FreshContext(runs, r)])
    /\ UNCHANGED <<selVars, splitVars, pipeVars, epVars, svcVars>>

TwinBeginPage(r) ==
    /\ runs[r].pc \in {"called", "pageDone"}
    /\ runs[r].page < MaxPages
    /\ SetRun(r, [EnterPage(runs[r]) EXCEPT !.pc = "lines", !.doc = Append(@, NewPage)])
    /\ UNCHANGED <<selVars, splitVars, pipeVars, epVars, svcVars>>

TwinParseLine(r) ==
    /\ runs[r].pc = "lines"
    /\ runs[r].linesLeft > 0
    /\ \E raw_line \in TwinLinePool :
          SetRun(r, [LineBody(runs[r], raw_line) EXCEPT
                        !.linesLeft = @ - 1,
                        !.doc[Len(runs[r].doc)].lines = Append(@, raw_line)])
    /\ UNCHANGED <<selVars, splitVars, pipeVars, epVars, svcVars>>

TwinEndText(r) ==
    /\ runs[r].pc = "lines"
    /\ IF TextEntriesEmpty(Len(runs[r].entries), runs[r].pageStart)
       THEN \E ts \in SeqsUpTo(TwinTablePool, MaxTables) :
               SetRun(r, [LeaveText(runs[r]) EXCEPT
                             !.tables = ts,
                             !.doc[Len(runs[r].doc)].tables = ts,
                             !.pc = IF ts = <<>> THEN "pageDone" ELSE "tables"])
       ELSE SetRun(r, [LeaveText(runs[r]) EXCEPT !.pc = "pageDone"])
    /\ UNCHANGED <<selVars, splitVars, pipeVars, epVars, svcVars>>

TwinTableStep(r) ==
    /\ runs[r].pc = "tables"
    /\ SetRun(r, [TableBody(runs[r], Head(runs[r].tables)) EXCEPT
                     !.tables = Tail(@),
                     !.pc = IF Tail(runs[r].tables) = <<>> THEN "pageDone" ELSE "tables"])
    /\ UNCHANGED <<selVars, splitVars, pipeVars, epVars, svcVars>>

TwinFinish(r) ==
    /\ runs[r].pc \in {"called", "pageDone"}
    /\ SetRun(r, [runs[r] EXCEPT !.pc = "done"])
    /\ UNCHANGED <<selVars, splitVars, pipeVars, epVars, svcVars>>

InitTwin == TwinIdle /\ SelIdle /\ SplitIdle /\ PipeIdle /\ EpIdle /\ SvcIdle

NextTwin ==
    \E r \in 1..2 :
        \/ TwinCall(r)
        \/ TwinBeginPage(r)
        \/ TwinParseLine(r)
        \/ TwinEndText(r)
        \/ TwinTableStep(r)
        \/ TwinFinish(r)

SpecTwin == InitTwin /\ [][NextTwin]_vars

\* The same function called alone on a document: its loops run to the end.
RECURSIVE LinesLoop(_, _)
LinesLoop(st, lines) ==
    IF lines = <<>> THEN st ELSE LinesLoop(LineBody(st, Head(lines)), Tail(lines))

RECURSIVE TablesLoop(_, _)
TablesLoop(st, ts) ==
    IF ts = <<>> THEN st ELSE TablesLoop(TableBody(st, Head(ts)), Tail(ts))

AfterText(st, ts) ==
    IF TextEntriesEmpty(Len(st.entries), st.pageStart) THEN TablesLoop(st, ts) ELSE st

PageAlone(st, page) ==
    AfterText(LeaveText(LinesLoop(EnterPage(st), page.lines)), page.tables)

RECURSIVE PagesLoop(_, _)
PagesLoop(st, pages) ==
    IF pages = <<>> THEN st ELSE PagesLoop(PageAlone(st, Head(pages)), Tail(pages))

\* What a call leaves: the list it returns and its context.
Outcome(st) == [entries |-> st.entries, context |-> st.context]

ExtractAlone(doc) == Outcome(PagesLoop(NewRun, doc))

---------------------------------------------------------------------------
(* SpecEndpoint: one request to injury_report_latest.  The index server,   *)
(* the PDF server and the PDF reader are collaborators: what they answer is *)
(* chosen, and recorded in ep.                                              *)

\* "https://official.nba.com": scheme and host of INJURY_REPORT_INDEX_URL
IndexOrigin ==
    <<"h","t","t","p","s",":","/","/","o","f","f","i","c","i","a","l",".","n","b","a",".","c","o","m">>

\* The href attributes of the anchors of an index page.
HrefPool == {
    <<"/","I","n","j","u","r","y","_","2","0","2","5","-","0","1","-","0","5",".","p","d","f">>,
    <<"/","i","n","j","u","r","y","_","2","0","2","5","0","1","0","6","_","9","A","M",".","P","D","F">>,
    <<"/","n","o","t","e","s",".","p","d","f">>,
    <<"/","i","n","j","u","r","y",".","h","t","m","l">> }

StatusCodes == {200, 399, 400, 404, 500}

\* The documents the PDF may hold.
DocPool == {
    <<>>,
    <<[lines |-> << <<"0","1","/","1","5","/","2","0","2","5"," ","7",":","0","0","(","E","T",")"," ","A","@","B"," ","A"," ","J"," ","O","u","t"," ","k">> >>,
       tables |-> <<>>]>> }

\* needle in haystack
ContainsSub(haystack, needle) ==
    \E i \in 1..(Len(haystack) - Len(needle) + 1) :
        SubSeq(haystack, i, i + Len(needle) - 1) = needle

\* The two tests of the loop over the anchors.
Qualifies(href) ==
    /\ ContainsSub(lower(href), <<".", "p", "d", "f">>)
    /\ ContainsSub(lower(href), <<"i", "n", "j", "u", "r", "y">>)

\* urljoin(base_url, href) for an href that is an absolute path
urljoin(base_url, href) == base_url \o href

_find_injury_report_links(hrefs, base_url) ==
    [i \in 1..Len(SelectSeq(hrefs, Qualifies)) |-> urljoin(base_url, SelectSeq(hrefs, Qualifies)[i])]

\* raise HTTPException(status_code=502, detail=...)
Gateway(req, cause) == [req EXCEPT !.pc = "responded", !.status = 502, !.detail = cause]

\* An exception no handler of the endpoint catches: the framework answers 500.
Unhandled(req, cause) == [req EXCEPT !.pc = "responded", !.status = 500, !.detail = cause]

Did(req, step) == [req EXCEPT !.steps = Append(@, step)]

\* Mutant: the test on the empty list of links is missing.
NoLinksTestMissing(links_) == FALSE

\* if not links
NoLinks(links_) == links_ = <<>>

\* requests.get(INJURY_REPORT_INDEX_URL, ...) and the test of its status
EpFetchIndex ==
    /\ ep.pc = "start"
    /\ \/ ep' = Gateway([Did(ep, "indexFetch") EXCEPT !.indexRaised = TRUE],
                        "Failed to fetch injury report index")
       \/ \E code \in StatusCodes, page \in SeqsUpTo(HrefPool, MaxLinks) :
             ep' = IF code >= 400
                   THEN Gateway([Did(ep, "indexFetch") EXCEPT !.indexStatus = code],
                                "Injury report index returned")
                   ELSE [Did(ep, "indexFetch") EXCEPT !.indexStatus = code,
                                                      !.hrefs = page,
                                                      !.pc = "indexOk"]
    /\ UNCHANGED <<selVars, splitVars, pipeVars, twinVars, svcVars>>

LinksFound(req, found) ==
    IF NoLinks(found)
    THEN Gateway(req, "No injury report PDF links found")
    ELSE [req EXCEPT !.links = found, !.pc = "linksFound"]

\* links = _find_injury_report_links(...); if not links: ...
EpFindLinks ==
    /\ ep.pc = "indexOk"
    /\ ep' = LinksFound(Did(ep, "linkSearch"),
                        _find_injury_report_links(ep.hrefs, IndexOrigin))
    /\ UNCHANGED <<selVars, splitVars, pipeVars, twinVars, svcVars>>

Selected(req, r) ==
    IF r.raised # NoError
    THEN Unhandled(req, r.raised)
    ELSE [req EXCEPT !.report_url = r.url, !.pc = "selected"]

\* report_url = _select_latest_report_link(links)
EpSelect ==
    /\ ep.pc = "linksFound"
    /\ ep' = Selected(Did(ep, "selection"), _select_latest_report_link(ep.links))
    /\ UNCHANGED <<selVars, splitVars, pipeVars, twinVars, svcVars>>

\* requests.get(report_url, ...) and the test of its status
EpFetchPdf ==
    /\ ep.pc = "selected"
    /\ \/ ep' = Gateway([Did(ep, "pdfFetch") EXCEPT !.pdfRaised = TRUE],
                        "Failed to fetch injury report PDF")
       \/ \E code \in StatusCodes :
             ep' = IF code >= 400
                   THEN Gateway([Did(ep, "pdfFetch") EXCEPT !.pdfStatus = code],
                                "Injury report PDF returned")
                   ELSE [Did(ep, "pdfFetch") EXCEPT !.pdfStatus = code, !.pc = "pdfOk"]
    /\ UNCHANGED <<selVars, splitVars, pipeVars, twinVars, svcVars>>

\* entries = _extract_injury_report_entries(pdf_response.content)
EpExtract ==
    /\ ep.pc = "pdfOk"
    /\ \/ ep' = Unhandled([Did(ep, "extraction") EXCEPT !.extractRaised = TRUE],
                          "exception in _extract_injury_report_entries")
       \/ \E doc \in DocPool :
             ep' = [Did(ep, "extraction") EXCEPT !.entries = ExtractAlone(doc).entries,
                                                 !.pc = "extracted"]
    /\ UNCHANGED <<selVars, splitVars, pipeVars, twinVars, svcVars>>

\* report = {"source_url": report_url, **meta}
ReportOf(url, meta) ==
    [source_url |-> url, report_date |-> meta.report_date, report_time |-> meta.report_time]

\* meta = ...; return {"report": report, "entries": entries}
EpRespond ==
    /\ ep.pc = "extracted"
    /\ ep' = [ep EXCEPT !.pc = "responded", !.status = 200,
                        !.report = ReportOf(ep.report_url,
                                            _extract_report_metadata_from_url(ep.report_url))]
    /\ UNCHANGED <<selVars, splitVars, pipeVars, twinVars, svcVars>>

InitEndpoint == EpIdle /\ SelIdle /\ SplitIdle /\ PipeIdle /\ TwinIdle /\ SvcIdle

NextEndpoint ==
    EpFetchIndex \/ EpFindLinks \/ EpSelect \/ EpFetchPdf \/ EpExtract \/ EpRespond

SpecEndpoint == InitEndpoint /\ [][NextEndpoint]_vars

---------------------------------------------------------------------------
(* SpecRetry: one call of _with_retries with NBA_API_RETRY from -1 to      *)
(* MaxRetries; every attempt returns a value or raises, as fn (or the      *)
(* proxy context around it) chooses.                                       *)

RuntimeError == "RuntimeError: NBA API request failed"

\* What fn may return and what an attempt may raise.
FnValues     == {"v1", "v2"}
FnExceptions == {"e1", "e2"}
ProxyError   == "proxy refresh failed"

\* Mutant: the first exception caught is kept.
CaughtKeepsFirst(last_exc, exc) == IF last_exc = NoExc THEN exc ELSE last_exc

\* except Exception as exc: last_exc = exc
Caught(last_exc, exc) == exc

\* An attempt has raised exc: the except clause.
AttemptFailed(call, calledFn, exc) ==
    [call EXCEPT !.log = Append(@, [fn |-> calledFn, ok |-> FALSE, val |-> exc]),
                 !.last_exc = Caught(@, exc),
                 !.pc = IF call.attempt >= call.retries THEN "afterLoop" ELSE "sleep"]

\* One iteration of "for attempt in range(retries + 1)" up to the return or to
\* the end of the except clause's test.
RetryAttempt ==
    /\ rt.pc = "loop"
    /\ rt.attempt < rt.retries + 1
    /\ \/ \E v \in FnValues :
             rt' = [rt EXCEPT !.log = Append(@, [fn |-> TRUE, ok |-> TRUE, val |-> v]),
                              !.result = v, !.pc = "returned"]
       \/ \E e \in FnExceptions : rt' = AttemptFailed(rt, TRUE, e)
       \/ rt' = AttemptFailed(rt, FALSE, ProxyError)
    /\ UNCHANGED <<px, selVars, splitVars, pipeVars, twinVars, epVars>>

\* time.sleep(sleep_ms / 1000), and the next value of attempt
RetrySleep ==
    /\ rt.pc = "sleep"
    /\ rt' = [rt EXCEPT !.sleeps = @ + 1, !.attempt = @ + 1, !.pc = "loop"]
    /\ UNCHANGED <<px, selVars, splitVars, pipeVars, twinVars, epVars>>

\* range(retries + 1) is exhausted.
RetryLoopEnds ==
    /\ rt.pc = "loop"
    /\ rt.attempt >= rt.retries + 1
    /\ rt' = [rt EXCEPT !.pc = "afterLoop"]
    /\ UNCHANGED <<px, selVars, splitVars, pipeVars, twinVars, epVars>>

\* if last_exc: raise last_exc; raise RuntimeError(...)
RetryRaise ==
    /\ rt.pc = "afterLoop"
    /\ rt' = [rt EXCEPT !.raised = IF rt.last_exc # NoExc THEN rt.last_exc
                                   ELSE RuntimeError,
                        !.pc = "raised"]
    /\ UNCHANGED <<px, selVars, splitVars, pipeVars, twinVars, epVars>>

InitRetry ==
    /\ \E r \in (-1)..MaxRetries : rt = [NewRetry EXCEPT !.pc = "loop", !.retries = r]
    /\ px = NewProxy
    /\ SelIdle /\ SplitIdle /\ PipeIdle /\ TwinIdle /\ EpIdle

NextRetry == RetryAttempt \/ RetrySleep \/ RetryLoopEnds \/ RetryRaise

\* The thread that runs the call is scheduled as long as it can take a step.
SpecRetry == InitRetry /\ [][NextRetry]_vars /\ WF_vars(NextRetry)

---------------------------------------------------------------------------
(* SpecProxy: the process with NBA_PROXY_ENABLED set or not.  The startup  *)
(* handler runs first; then the event loop serves one request after        *)
(* another, each inside _proxy_context, while the refresh thread runs.     *)
(* What the proxy source answers and whether fn raises are chosen.         *)

\* What _fetch_proxy_list may return.
FetchResults == {<<>>, <<"p1">>, <<"p1", "p2">>}

\* The values HTTP_PROXY and HTTPS_PROXY may have when the process starts.
EnvValues == {Unset, "env"}

At(t, where) == px.pc[t] = where

Goto(p, t, where) == [p EXCEPT !.pc[t] = where, !.last = where]

\* _PROXY_LOCK.acquire() returns: the lock was free and is taken.
Acquired(p, t, where) == [Goto(p, t, where) EXCEPT !.locked = TRUE]

\* proxies = _fetch_proxy_list(); if proxies: ... (the time stamps are left out)
PoolAfterFetch(p, proxies) ==
    IF proxies # <<>> THEN [p EXCEPT !.pool = proxies, !.index = 0] ELSE p

\* _next_proxy(): the proxy, and the state with the index advanced
NextProxyOf(p) ==
    IF p.pool = <<>> THEN Unset ELSE p.pool[(p.index % Len(p.pool)) + 1]

AfterNextProxy(p) ==
    IF p.pool = <<>> THEN p ELSE [p EXCEPT !.index = (p.index % Len(p.pool)) + 1]

\* if proxy: os.environ["HTTP_PROXY"] = proxy; os.environ["HTTPS_PROXY"] = proxy
WithProxy(p, proxy) ==
    IF proxy # Unset
    THEN [p EXCEPT !.http = proxy, !.https = proxy, !.proxy = proxy]
    ELSE [p EXCEPT !.proxy = Unset]

\* Mutant: the lock is released only when fn returned.
LockKeptOnRaise(raised) == raised

\* _PROXY_LOCK.release() in the finally clause: the lock after the exit
LockAfterExit(raised) == FALSE

\* Mutant: HTTPS_PROXY is left as the context set it.
RestoredHttpOnly(p) == [p EXCEPT !.http = p.prev.http]

\* The finally clause: both variables get the values read on entry; the value
\* Unset stands for the variable being removed.
Restored(p) == [p EXCEPT !.http = p.prev.http, !.https = p.prev.https]

\* _start_proxy_refresh up to the lock
StartupBegin ==
    /\ At("startup", "idle")
    /\ px' = IF ~px.enabled \/ px.started
             THEN Goto(px, "startup", "done")
             ELSE [Goto(px, "startup", "wantLock") EXCEPT !.started = TRUE]
    /\ UNCHANGED <<rt, selVars, splitVars, pipeVars, twinVars, epVars>>

\* with _PROXY_LOCK: (startup)
StartupAcquire ==
    /\ At("startup", "wantLock")
    /\ ~px.locked
    /\ px' = Acquired(px, "startup", "refreshing")
    /\ UNCHANGED <<rt, selVars, splitVars, pipeVars, twinVars, epVars>>

\* _refresh_proxy_pool(force=True) under the lock, the end of the with block, and
\* the start of the refresh thread when the refresh did not raise
StartupRefresh ==
    /\ At("startup", "refreshing")
    /\ \/ px' = [Goto(px, "startup", "failed") EXCEPT !.locked = FALSE]
       \/ \E proxies \in FetchResults :
             px' = [Goto(PoolAfterFetch(px, proxies), "startup", "done")
                        EXCEPT !.locked = FALSE, !.pc["loop"] = "sleeping"]
    /\ UNCHANGED <<rt, selVars, splitVars, pipeVars, twinVars, epVars>>

\* time.sleep(PROXY_REFRESH_SEC) ends; with _PROXY_LOCK: (refresh thread)
LoopAcquire ==
    /\ At("loop", "sleeping")
    /\ ~px.locked
    /\ px' = Acquired(px, "loop", "refreshing")
    /\ UNCHANGED <<rt, selVars, splitVars, pipeVars, twinVars, epVars>>

\* _refresh_proxy_pool(force=True) under the lock and the end of the with block;
\* an exception ends the thread
LoopRefresh ==
    /\ At("loop", "refreshing")
    /\ \/ px' = [Goto(px, "loop", "dead") EXCEPT !.locked = FALSE]
       \/ \E proxies \in FetchResults :
             px' = [Goto(PoolAfterFetch(px, proxies), "loop", "sleeping")
                        EXCEPT !.locked = FALSE]
    /\ UNCHANGED <<rt, selVars, splitVars, pipeVars, twinVars, epVars>>

\* A request enters _proxy_context: without the proxy it goes to the yield.
RequestEnter ==
    /\ At("request", "idle")
    /\ At("startup", "done")
    /\ px' = IF px.enabled THEN Goto(px, "request", "wantLock")
             ELSE [Goto(px, "request", "yielded") EXCEPT !.proxy = Unset]
    /\ UNCHANGED <<rt, selVars, splitVars, pipeVars, twinVars, epVars>>

\* _PROXY_LOCK.acquire()
RequestAcquire ==
    /\ At("request", "wantLock")
    /\ ~px.locked
    /\ px' = [Acquired(px, "request", "acquired")
                 EXCEPT !.entry = [http |-> px.http, https |-> px.https]]
    /\ UNCHANGED <<rt, selVars, splitVars, pipeVars, twinVars, epVars>>

\* prev_http and prev_https are read; then, in the try block, the pool is left as
\* it is (it is fresh) or fetched, which may raise; the next proxy is set.
RequestSetup ==
    /\ At("request", "acquired")
    /\ \/ px' = [Goto(px, "request", "finally")
                    EXCEPT !.prev = [http |-> px.http, https |-> px.https],
                           !.proxy = Unset, !.raised = TRUE]
       \/ \E proxies \in FetchResults \cup {px.pool} :
             px' = [Goto(WithProxy(AfterNextProxy(PoolAfterFetch(px, proxies)),
                                   NextProxyOf(PoolAfterFetch(px, proxies))),
                         "request", "yielded")
                       EXCEPT !.prev = [http |-> px.http, https |-> px.https]]
    /\ UNCHANGED <<rt, selVars, splitVars, pipeVars, twinVars, epVars>>

\* fn runs at the yield and returns or raises.
RequestBody ==
    /\ At("request", "yielded")
    /\ \E fnRaised \in BOOLEAN :
          px' = [Goto(px, "request", IF px.enabled THEN "finally" ELSE "idle")
                    EXCEPT !.raised = fnRaised]
    /\ UNCHANGED <<rt, selVars, splitVars, pipeVars, twinVars, epVars>>

\* The finally clause.
RequestExit ==
    /\ At("request", "finally")
    /\ px' = [Goto(Restored(px), "request", "idle")
                 EXCEPT !.locked = LockAfterExit(px.raised), !.last = "exit"]
    /\ UNCHANGED <<rt, selVars, splitVars, pipeVars, twinVars, epVars>>

InitProxy ==
    /\ \E on \in BOOLEAN, h \in EnvValues, hs \in EnvValues :
          px = [NewProxy EXCEPT !.enabled = on, !.http = h, !.https = hs]
    /\ rt = NewRetry
    /\ SelIdle /\ SplitIdle /\ PipeIdle /\ TwinIdle /\ EpIdle

NextProxy ==
    \/ StartupBegin \/ StartupAcquire \/ StartupRefresh
    \/ LoopAcquire \/ LoopRefresh
    \/ RequestEnter \/ RequestAcquire \/ RequestSetup \/ RequestBody \/ RequestExit

SpecProxy == InitProxy /\ [][NextProxy]_vars

---------------------------------------------------------------------------
(* Properties of the report locator (checked under SpecSelect).            *)

Range(f) == {f[i] : i \in DOMAIN f}

\* The sortable timestamp the selection gives link i of the argument.
TimestampOf(i) == dt_value(links[i]).dt

\* The links of the argument that share the greatest timestamp.
TiedAtTop ==
    {i \in 1..Len(links) : \A j \in 1..Len(links) : ~TupleLess(TimestampOf(i), TimestampOf(j))}

\* C1 (the claim as stated): when two or more links share the greatest sortable
\* timestamp, the URL returned is the earliest-listed of them.
C1_EarliestOfTiesSelected ==
    (selPc = "returned" /\ Cardinality(TiedAtTop) >= 2)
        => selResult = links[SetMin(TiedAtTop)]

\* A link whose file name carries a date that parses as a calendar date.
HasParseableDate(link) ==
    LET meta == _extract_report_metadata_from_url(link)
    IN  meta.report_date # None /\ strptime_date(meta.report_date).ok

DatedLinks == {i \in 1..Len(links) : HasParseableDate(links[i])}

\* C6 (the claim as stated): when exactly one link carries a parseable date, that
\* link is returned, whatever its position and whatever else its name contains.
C6_OnlyDatedLinkSelected ==
    (selPc = "returned" /\ Cardinality(DatedLinks) = 1)
        => selResult = links[CHOOSE i \in DatedLinks : TRUE]

\* C7: a call with an empty list raises the no-candidates error and returns no URL.
C7_EmptyListRaises ==
    (selPc # "call" /\ links = <<>>)
        => (selPc = "raised" /\ selErr = NoLinksError /\ selResult = None)

C7_Witness == selPc = "raised" /\ links = <<>>

\* C8: a call with a non-empty list never raises, whatever date and time fragments
\* the file names carry, and returns a member of the list.
C8_NonEmptyNeverFails ==
    (selPc # "call" /\ links # <<>>)
        => (selPc = "returned" /\ selErr = NoError /\ selResult \in Range(links))

\* A returned call whose list holds a date that is out of range (month 13) and a
\* time fragment that is out of range (hour 15 PM).
C8_Witness ==
    /\ selPc = "returned"
    /\ \E i \in 1..Len(links) :
           LET meta == _extract_report_metadata_from_url(links[i])
           IN  meta.report_date # None /\ ~strptime_date(meta.report_date).ok
    /\ \E i \in 1..Len(links) :
           LET meta == _extract_report_metadata_from_url(links[i])
           IN  /\ meta.report_date # None /\ strptime_date(meta.report_date).ok
               /\ meta.report_time # None /\ ~ParseMeta(meta).ok

---------------------------------------------------------------------------
(* Properties of the splitter (checked under SpecSplit).                   *)

\* label occurs in text at p as a whole word, letter case ignored.
OccursAsWord(label, text, p) ==
    LET n == Len(label)
    IN  /\ p \in 1..(Len(text) - n + 1)
        /\ \A k \in 1..n : LowerChar(text[p + k - 1]) = LowerChar(label[k])
        /\ (p = 1 \/ ~IsWordChar(text[p - 1]))
        /\ (p + n > Len(text) \/ ~IsWordChar(text[p + n]))

LabelsOccurring(text) ==
    {i \in 1..Len(STATUS_OPTIONS) :
        \E p \in 1..Len(text) : OccursAsWord(STATUS_OPTIONS[i], text, p)}

C9_Expected(text) ==
    IF text = <<>> THEN Triple(None, None, None)
    ELSE IF LabelsOccurring(text) = {} THEN Triple(strip(text), None, None)
    ELSE LET i      == SetMin(LabelsOccurring(text))
             label  == STATUS_OPTIONS[i]
             p      == SetMin({x \in 1..Len(text) : OccursAsWord(label, text, x)})
             before == strip(SubSeq(text, 1, p - 1))
             after  == strip(SubSeq(text, p + Len(label), Len(text)))
         IN  Triple(IF before = <<>> THEN None ELSE before,
                    label,
                    IF after = <<>> THEN None ELSE after)

\* C9: the splitter returns (none, none, none) for the empty text; when a label
\* occurs as a whole word, the first such label in list order splits the text at its
\* first occurrence into the trimmed text before it, the label in the vocabulary's
\* casing and the trimmed text after it; otherwise the trimmed text is the player.
C9_SplitterContract ==
    splitPc = "returned" => splitOut = C9_Expected(splitText)

\* A returned call on a text in which two labels occur, the one found written in
\* another casing than the vocabulary's, with text on both sides of it.
C9_Witness ==
    /\ splitPc = "returned"
    /\ Cardinality(LabelsOccurring(splitText)) >= 2
    /\ splitOut.player # None /\ splitOut.reason # None
    /\ \E p \in 1..Len(splitText) :
          /\ OccursAsWord(splitOut.status, splitText, p)
          /\ SubSeq(splitText, p, p + Len(splitOut.status) - 1) # splitOut.status
          /\ \A x \in 1..(p - 1) : ~OccursAsWord(splitOut.status, splitText, x)

---------------------------------------------------------------------------
(* Properties of the extraction (checked under Spec).                      *)

\* C2 (the claim as stated): each of gameDate, gameTime, matchup, team of an emitted
\* entry is either the value parsed from the entry's own line or row, or the value the
\* context held for that field when the entry was finalized.
C2_ContextFieldsOwnOrInherited ==
    \A i \in 1..Len(entries) : \A k \in ContextKeys :
        Get(entries[i], k) \in {origin[i].own[k], origin[i].ctx[k]}

\* C3 (the claim as stated): every entry of the output, line-derived or
\* table-derived, has a non-empty playerName, status or reason.
C3_EntryHasPlayerStatusOrReason ==
    \A i \in 1..Len(entries) :
        \/ Truthy(Get(entries[i], "playerName"))
        \/ Truthy(Get(entries[i], "status"))
        \/ Truthy(Get(entries[i], "reason"))

\* C4 (the claim as stated): the status of an entry of the output, when set, is one
\* of the labels of STATUS_OPTIONS in the vocabulary's casing.
C4_StatusInVocabulary ==
    \A i \in 1..Len(entries) :
        Truthy(Get(entries[i], "status"))
            => Get(entries[i], "status") \in Range(STATUS_OPTIONS)

\* C5: no page contributes both line-derived and table-derived entries: the entries
\* of one page all come from the same parser.
C5_NoPageWithBothParsers ==
    \A i, j \in 1..Len(entries) :
        origin[i].page = origin[j].page => origin[i].parser = origin[j].parser

\* The output holds a line-derived entry of one page and a table-derived entry of
\* another.
C5_Witness ==
    /\ pc = "done"
    /\ \E i, j \in 1..Len(entries) :
          origin[i].parser = "line" /\ origin[j].parser = "table"

\* The line the classification sees: the raw line stripped and cleaned.
SeenLine(raw_line) == _clean_injury_line(strip(raw_line))

\* date, time, matchup token, team token, rest: five or more tokens, the first a
\* date and the second a time.
FullHeaderShape(line) ==
    /\ line # None
    /\ Len(split(line)) >= 5
    /\ DateShape(split(line)[1])
    /\ TimeShape(split(line)[2])

\* C10: a step that processes a full-header line appends exactly one entry, whose
\* gameDate, gameTime, matchup and team are the four values captured from the line
\* whatever the context was; after the step the context holds the same four values
\* and the last-entry references are that entry.
C10_FullHeaderStep ==
    (lastStep.kind = "line" /\ FullHeaderShape(SeenLine(lastStep.line)))
        => LET t == split(SeenLine(lastStep.line))
               n == Len(lastStep.before.entries) + 1
           IN  /\ Len(entries) = n
               /\ entries[n].gameDate = t[1] /\ entries[n].gameTime = t[2]
               /\ entries[n].matchup = t[3] /\ entries[n].team = t[4]
               /\ context.gameDate = t[1] /\ context.gameTime = t[2]
               /\ context.matchup = t[3] /\ context.team = t[4]
               /\ last_entry = n /\ context.lastEntry = n

\* A full-header line has just been processed in a context that held four other
\* values.
C10_Witness ==
    /\ lastStep.kind = "line" /\ FullHeaderShape(SeenLine(lastStep.line))
    /\ Len(entries) >= 2
    /\ \A k \in ContextKeys :
          /\ Truthy(lastStep.before.context[k])
          /\ lastStep.before.context[k] # entries[Len(entries)][k]

\* The raw line reaches the classification: it is not blank, not the title, not the
\* column titles, and cleaning leaves text.
Classified(raw_line) ==
    /\ strip(raw_line) # <<>>
    /\ ~IsTitleLine(strip(raw_line))
    /\ ~IsColumnTitleLine(strip(raw_line))
    /\ SeenLine(raw_line) # None

\* time, matchup token, team token, rest: four or more tokens, the first a time.
PartialHeaderShape(line) ==
    /\ line # None
    /\ Len(split(line)) >= 4
    /\ TimeShape(split(line)[1])

\* Not a header line, no comma, no label of the vocabulary as a word.
ContinuationShape(line) ==
    /\ ~FullHeaderShape(line)
    /\ ~PartialHeaderShape(line)
    /\ \A i \in 1..Len(line) : line[i] # ","
    /\ LabelsOccurring(line) = {}

ContinuationStep ==
    /\ lastStep.kind = "line"
    /\ Classified(lastStep.line)
    /\ ContinuationShape(SeenLine(lastStep.line))

\* The reason a continuation line leaves: the old reason, a space and the line, or
\* the line alone when there was no reason.
C11_Joined(old, line) ==
    IF old = None \/ old = <<>> THEN line ELSE old \o <<" ">> \o line

\* C11: a classified line that is no header line and holds neither a comma nor a
\* label creates no entry and leaves the context and the locals as they were; the
\* last entry, when there is one, gets its reason extended by the line and keeps its
\* other fields, and every other entry is unchanged; without a last entry nothing
\* changes.
C11_ContinuationFrame ==
    ContinuationStep =>
        LET b  == lastStep.before
            le == b.locals.last_entry
            t  == SeenLine(lastStep.line)
        IN  /\ Len(entries) = Len(b.entries)
            /\ context = b.context
            /\ Locals = b.locals
            /\ \A i \in 1..Len(entries) : i # le => entries[i] = b.entries[i]
            /\ le # 0 =>
                 /\ DOMAIN entries[le] = DOMAIN b.entries[le] \cup {"reason"}
                 /\ entries[le].reason = C11_Joined(Get(b.entries[le], "reason"), t)
                 /\ \A k \in DOMAIN b.entries[le] :
                        k # "reason" => entries[le][k] = b.entries[le][k]

\* A continuation line has extended a reason that was not empty.
C11_Witness ==
    /\ ContinuationStep
    /\ lastStep.before.locals.last_entry # 0
    /\ Truthy(Get(lastStep.before.entries[lastStep.before.locals.last_entry], "reason"))

---------------------------------------------------------------------------
(* Properties of the table parser (checked under Spec).                    *)

\* The canonical fields as the glossary lists them.
CanonicalFields ==
    {"gameDate", "gameTime", "matchup", "team", "playerName", "status", "reason",
     "returnDate"}

\* The names the alias table maps header labels onto.
AliasTargets == CanonicalFields \cup {"injury", "notes"}

\* headers [Player Name, Current Status, Notes], row [A. Player, Out, knee]
C12_Table ==
    <<<<<<"P","l","a","y","e","r"," ","N","a","m","e">>,
        <<"C","u","r","r","e","n","t"," ","S","t","a","t","u","s">>,
        <<"N","o","t","e","s">>>>,
      <<<<"A","."," ","P","l","a","y","e","r">>, <<"O","u","t">>, <<"k","n","e","e">>>>>>

C12_TableStep == lastStep.kind = "table" /\ lastStep.table = C12_Table

\* The entry the step on C12_Table appended, when it appended exactly one.
C12_Entry == entries[Len(entries)]

\* C12 (the claim as stated): the fields of a table-derived entry other than raw are
\* among gameDate, gameTime, matchup, team, playerName, status, reason, returnDate,
\* and the entry of C12_Table has playerName and status, no notes field, and raw
\* maps notes to knee.
C12_OnlyCanonicalFields ==
    /\ \A i \in 1..Len(entries) :
          origin[i].parser = "table" => DOMAIN entries[i] \ {"raw"} \subseteq CanonicalFields
    /\ C12_TableStep =>
          /\ Len(entries) = Len(lastStep.before.entries) + 1
          /\ Get(C12_Entry, "playerName") = C12_Table[2][1]
          /\ Get(C12_Entry, "status") = C12_Table[2][2]
          /\ "notes" \notin DOMAIN C12_Entry
          /\ C12_Entry.raw[<<"n","o","t","e","s">>] = C12_Table[2][3]

\* C12 (amended): the fields of a table-derived entry other than raw are among the
\* ten names the alias table maps onto, injury and notes included; the entry of
\* C12_Table has playerName 'A. Player', status 'Out' and notes 'knee', and its raw
\* maps the three normalized header labels to the three cells.
C12_FieldsFromAliasTable ==
    /\ \A i \in 1..Len(entries) :
          origin[i].parser = "table" => DOMAIN entries[i] \ {"raw"} \subseteq AliasTargets
    /\ C12_TableStep =>
          /\ Len(entries) = Len(lastStep.before.entries) + 1
          /\ C12_Entry.playerName = C12_Table[2][1]
          /\ C12_Entry.status = C12_Table[2][2]
          /\ C12_Entry.notes = C12_Table[2][3]
          /\ DOMAIN C12_Entry.raw = {lower(C12_Table[1][j]) : j \in 1..3}
          /\ \A j \in 1..3 : C12_Entry.raw[lower(C12_Table[1][j])] = C12_Table[2][j]

\* The table of the example has just been processed.
C12_Witness ==
    /\ C12_TableStep
    /\ Len(entries) = Len(lastStep.before.entries) + 1
    /\ origin[Len(entries)].parser = "table"

\* The rows of a table that yield an entry, in order.
KeptRows(table) ==
    SelectSeq(Tail(table), LAMBDA row : ~RowSkipped(row, RowValues(row)))

\* Reading raw back by column gives the cells of the row: raw holds one pair per
\* cell, and the pair of column j holds the value of cell j.
RawReconstructs(raw, normalized_headers, row_values) ==
    /\ Cardinality(DOMAIN raw) = Len(row_values)
    /\ \A j \in 1..Len(row_values) :
          /\ RawLabel(normalized_headers, j) \in DOMAIN raw
          /\ raw[RawLabel(normalized_headers, j)] = row_values[j]

\* C13 (the claim as stated): the raw map of every entry a table yields reconstructs
\* the row it came from, one pair per cell, whatever the header list (repeated or
\* blank labels, rows longer than the header).
C13_RawReconstructsRow ==
    lastStep.kind = "table" =>
        LET n0 == Len(lastStep.before.entries)
            nh == NormalizedHeaders(lastStep.table[1])
            rows == KeptRows(lastStep.table)
        IN  \A k \in 1..(Len(entries) - n0) :
                RawReconstructs(entries[n0 + k].raw, nh, RowValues(rows[k]))

---------------------------------------------------------------------------
(* Properties of two calls in progress at once (checked under SpecTwin).   *)

BothDone == runs[1].pc = "done" /\ runs[2].pc = "done"

C18_InterleavingLeavesEachCallAlone ==
    \A r \in 1..2 :
        runs[r].pc = "done" =>
            Outcome(runs[r]) = ExtractAlone(runs[r].doc)

\* Two calls on two different documents, each yielding entries, have returned after
\* their steps overlapped.
C18_Witness ==
    /\ BothDone
    /\ runs[1].doc # runs[2].doc
    /\ runs[1].entries # <<>> /\ runs[2].entries # <<>>
    /\ runs[1].entries # runs[2].entries
    /\ runs[1].overlapped /\ runs[2].overlapped

---------------------------------------------------------------------------
(* Failures inside the extraction (checked under Spec).                    *)

PageFailed == lastStep.kind \in {"textFails", "tablesFail"}

\* C15 (the claim as stated): when the extraction of one page fails, of its text or
\* of its tables, the extraction goes on: the entries gathered so far are kept and
\* the loop is at the end of that page, from where it completes.
C15_PageFailureSwallowed ==
    PageFailed => (pc = "pageDone" /\ entries = lastStep.before.entries)

---------------------------------------------------------------------------
(* Properties of the endpoint (checked under SpecEndpoint).                *)

EndpointOrder == <<"indexFetch", "linkSearch", "selection", "pdfFetch", "extraction">>

FirstSteps(n) == SubSeq(EndpointOrder, 1, n)

\* The request ended with the gateway error of the given cause after exactly
\* the first n steps of the order.
GatewayAfter(n, cause) ==
    /\ ep.status = 502
    /\ ep.detail = cause
    /\ ep.detail # ""
    /\ ep.steps = FirstSteps(n)

\* C16: the steps performed are always an initial part of the order index
\* fetch, link search, selection, PDF fetch, extraction; a request that has
\* ended after the index fetch raised, the index status was >= 400, no link
\* qualified, the PDF fetch raised or the PDF status was >= 400 has ended with
\* status 502 and the cause of that failure, having performed no step after
\* the failed one; and a request that has ended with a success response has
\* performed all five steps with none of them failing.
C16_OrderAndGatewayErrors ==
    /\ \E n \in 0..Len(EndpointOrder) : ep.steps = FirstSteps(n)
    /\ ep.pc = "responded" =>
          IF ep.indexRaised
              THEN GatewayAfter(1, "Failed to fetch injury report index")
          ELSE IF ep.indexStatus >= 400
              THEN GatewayAfter(1, "Injury report index returned")
          ELSE IF \A i \in 1..Len(ep.hrefs) : ~Qualifies(ep.hrefs[i])
              THEN GatewayAfter(2, "No injury report PDF links found")
          ELSE IF ep.pdfRaised
              THEN GatewayAfter(4, "Failed to fetch injury report PDF")
          ELSE IF ep.pdfStatus >= 400
              THEN GatewayAfter(4, "Injury report PDF returned")
          ELSE ep.status # 502
    /\ ep.status = 200 =>
          /\ ep.steps = EndpointOrder
          /\ ~ep.indexRaised /\ ep.indexStatus < 400
          /\ ep.links # <<>> /\ ep.report_url \in Range(ep.links)
          /\ ~ep.pdfRaised /\ ep.pdfStatus < 400
          /\ ~ep.extractRaised

\* A request whose index page held an anchor that does not qualify and one that
\* does, and whose PDF server answered 404: it ended with the gateway error
\* after the PDF fetch.
C16_Witness ==
    /\ ep.pc = "responded"
    /\ ep.status = 502
    /\ ep.pdfStatus = 404
    /\ Len(ep.hrefs) = 2
    /\ Len(ep.links) = 1
    /\ ep.steps = FirstSteps(4)

---------------------------------------------------------------------------
(* Immutability of the emitted entries (checked under Spec).               *)

\* old is an initial part of new; no reason counts as the empty one.
ReasonExtended(old, new) ==
    LET o == IF Truthy(old) THEN old ELSE <<>>
    IN  /\ new # None
        /\ Len(o) <= Len(new)
        /\ SubSeq(new, 1, Len(o)) = o

\* The entry differs from what it was in its reason only, and the reason it had
\* starts the reason it has.
OnlyReasonExtended(old, new) ==
    /\ DOMAIN new = DOMAIN old \cup {"reason"}
    /\ \A k \in DOMAIN old : k # "reason" => new[k] = old[k]
    /\ ReasonExtended(Get(old, "reason"), new.reason)

\* C17: whatever the step (a line, a table, the begin or end of a page), every
\* entry that was in the output before the step is still there; the most
\* recently appended one is unchanged or has only its reason extended, the
\* reason it had being a prefix of the new one; every other one is unchanged.
C17_OnlyTailReasonExtended ==
    LET b == lastStep.before.entries
    IN  /\ Len(entries) >= Len(b)
        /\ \A i \in 1..Len(b) :
              IF i = Len(b)
              THEN entries[i] = b[i] \/ OnlyReasonExtended(b[i], entries[i])
              ELSE entries[i] = b[i]

\* After two entries a continuation line has extended the reason of the second
\* and left the first as it was.
C17_Witness ==
    /\ lastStep.kind = "line"
    /\ Len(lastStep.before.entries) = 2
    /\ Len(entries) = 2
    /\ entries[1] = lastStep.before.entries[1]
    /\ entries[2] # lastStep.before.entries[2]
    /\ Truthy(Get(lastStep.before.entries[2], "reason"))

---------------------------------------------------------------------------
(* The timestamp rule of the selection (checked under SpecSelect).         *)

\* The timestamp the rule gives a link whose date parsed to d: the date combined
\* with the time when the name holds a time fragment that is a valid 12-hour
\* time, the date at the start of the day otherwise.
RuleWithDate(meta, d) ==
    IF meta.report_time = None THEN d
    ELSE IF strptime_datetime(meta.report_date \o <<" ">> \o meta.report_time).ok
    THEN strptime_datetime(meta.report_date \o <<" ">> \o meta.report_time).dt
    ELSE d

RuleOfMeta(meta) ==
    IF meta.report_date # None /\ strptime_date(meta.report_date).ok
    THEN RuleWithDate(meta, strptime_date(meta.report_date).dt)
    ELSE datetime_min

\* C19: the timestamp the selection gives each link is the date combined with
\* the time when both parse, the date at the start of the day when the date
\* parses and the time does not (no fragment, or a fragment that is no valid
\* 12-hour time), and the minimum only when the date does not parse; so a link
\* whose date parses never has the minimum timestamp.
C19_TimestampRule ==
    selPc = "returned" =>
        \A i \in 1..Len(links) :
            /\ TimestampOf(i) = RuleOfMeta(_extract_report_metadata_from_url(links[i]))
            /\ HasParseableDate(links[i]) => TimestampOf(i) # datetime_min

---------------------------------------------------------------------------
(* Apply, then update (checked under Spec).                                *)

\* C20: for every emitted entry, of either parser, and each of the four context
\* fields: a field the entry was built with keeps that value; a field it was
\* built without has the value the context had for it, when the context had one;
\* and the context that _update_injury_context left for the entry holds, for
\* each of the four fields the entry has, the entry's value.
C20_ApplyThenUpdate ==
    \A i \in 1..Len(entries) : \A k \in ContextKeys :
        /\ Truthy(origin[i].built[k]) => entries[i][k] = origin[i].built[k]
        /\ (~Truthy(origin[i].built[k]) /\ Truthy(origin[i].ctx[k]))
              => entries[i][k] = origin[i].ctx[k]
        /\ Truthy(Get(entries[i], k)) => origin[i].after[k] = entries[i][k]

\* Both parsers have emitted: a table entry that was built with a team of its own
\* while the context held another, and that inherited the date it lacked from the
\* context a line entry had left.
C20_Witness ==
    \E i \in 1..Len(entries) :
        /\ origin[i].parser = "table"
        /\ Truthy(origin[i].built.team)
        /\ Truthy(origin[i].ctx.team)
        /\ origin[i].ctx.team # origin[i].built.team
        /\ entries[i].team = origin[i].built.team
        /\ ~Truthy(origin[i].built.gameDate)
        /\ Truthy(origin[i].ctx.gameDate)
        /\ entries[i].gameDate = origin[i].ctx.gameDate
        /\ origin[i].after.team = entries[i].team

---------------------------------------------------------------------------
(* The context only strengthens (checked under Spec).                      *)

\* C21: whatever the step (a line, a table with its rows, the begin or end of a
\* page), a field among gameDate, gameTime, matchup and team that the context
\* held before the step is still set after it: it keeps its value or takes
\* another non-empty one.
C21_ContextOnlyStrengthens ==
    \A k \in ContextKeys :
        Truthy(lastStep.before.context[k]) => Truthy(context[k])

\* A line has emitted an entry that replaced the team of the context by another
\* one and left the date, which the entry did not carry, as it was.
C21_Witness ==
    /\ lastStep.kind = "line"
    /\ Len(entries) = Len(lastStep.before.entries) + 1
    /\ Truthy(lastStep.before.context.team)
    /\ Truthy(context.team)
    /\ context.team # lastStep.before.context.team
    /\ Truthy(lastStep.before.context.gameDate)
    /\ ~Truthy(origin[Len(entries)].own.gameDate)
    /\ context.gameDate = lastStep.before.context.gameDate

---------------------------------------------------------------------------
(* The partial-header line (checked under Spec).                           *)

PartialHeaderStep ==
    /\ lastStep.kind = "line"
    /\ PartialHeaderShape(SeenLine(lastStep.line))

\* C22: a line of the partial-header shape (a time, a matchup token, a team
\* token and a rest, without a leading date) appends exactly one entry; its
\* gameTime, matchup and team are the first three tokens of the line, its
\* gameDate is the gameDate the context had before the line (none if it had
\* none), and the gameDate of the context is what it was.
C22_PartialHeaderStep ==
    PartialHeaderStep =>
        LET t == split(SeenLine(lastStep.line))
            b == lastStep.before
            n == Len(lastStep.before.entries) + 1
        IN  /\ Len(entries) = n
            /\ \A i \in 1..(n - 1) : entries[i] = b.entries[i]
            /\ entries[n].gameTime = t[1]
            /\ entries[n].matchup = t[2]
            /\ entries[n].team = t[3]
            /\ entries[n].gameDate = b.context.gameDate
            /\ context.gameDate = b.context.gameDate

\* A partial-header line has met a context that held a date and other values of
\* time, matchup and team.
C22_Witness ==
    /\ PartialHeaderStep
    /\ Truthy(lastStep.before.context.gameDate)
    /\ entries[Len(entries)].gameDate = lastStep.before.context.gameDate
    /\ \A k \in {"gameTime", "matchup", "team"} :
          /\ Truthy(lastStep.before.context[k])
          /\ lastStep.before.context[k] # entries[Len(entries)][k]

\* A partial-header line has met a context without a date.
C22_WitnessNoDate ==
    /\ PartialHeaderStep
    /\ lastStep.before.context.gameDate = None
    /\ entries[Len(entries)].gameDate = None

---------------------------------------------------------------------------
(* Rows that repeat the header (checked under Spec).                       *)

\* Some cell of the row is, once normalized, one of the labels of the headers.
RepeatsHeaderLabel(headers, row) ==
    \E i \in 1..Len(row), j \in 1..Len(headers) :
        /\ _normalize_header(headers[j]) # <<>>
        /\ _normalize_header(row[i]) = _normalize_header(headers[j])

\* C23 (the claim as stated): for the table a table step has read, every data
\* row one of whose cells repeats a label of the table's header yields no entry.
C23_RepeatedHeaderRowSkipped ==
    lastStep.kind = "table" =>
        \A r \in 2..Len(lastStep.table) :
            RepeatsHeaderLabel(lastStep.table[1], lastStep.table[r])
                => _build_entries_from_table(<<lastStep.table[1], lastStep.table[r]>>) = <<>>

---------------------------------------------------------------------------
(* The order of the vocabulary (checked under SpecSplit and SpecVocab).    *)

\* The splitter scanning its own list is the splitter of the model.
SplitWithOwnList ==
    splitPc = "returned" => SplitWith(STATUS_OPTIONS, splitText) = splitOut

\* C24 (the claim as stated): whatever the order in which the list holds the
\* labels, the splitter returns for the text what it returns with the list as
\* it is.
C24_VocabularyOrderIrrelevant ==
    splitPc = "returned" => splitOut = _parse_player_status_reason(splitText)

---------------------------------------------------------------------------
(* Pages in order, context and last entry carried over (checked under Spec). *)

\* The value of field k in the last of the entries es that has one (None: none has).
MostRecent(es, k) ==
    LET having == {j \in 1..Len(es) : Truthy(Get(es[j], k))}
    IN  IF having = {} THEN None ELSE es[SetMax(having)][k]

\* The step was the first line of its page.
TopOfPage == lastStep.kind = "line" /\ lastStep.prev = "beginPage"

C25_WitnessContinuation ==
    /\ TopOfPage /\ ContinuationStep /\ pageNo = 2
    /\ Len(entries) >= 1
    /\ origin[Len(entries)].page = 1
    /\ entries[Len(entries)] # lastStep.before.entries[Len(entries)]

---------------------------------------------------------------------------
(* The text of a fallback page (checked under Spec).                       *)

\* C26 (the claim as stated): when the table parser has run on a page, the
\* entries that were in the output when the page began are as they were then:
\* the lines of the page have modified none of them.
C26_FallbackPageTextLeftOutputUntouched ==
    lastStep.kind = "table" =>
        SubSeq(entries, 1, Len(lastStep.pageEntries)) = lastStep.pageEntries

---------------------------------------------------------------------------
(* The retry loop (checked under SpecRetry).                               *)

\* The attempts that have called fn.
FnCalls == {i \in 1..Len(rt.log) : rt.log[i].fn}

RetryEnded == rt.pc \in {"returned", "raised"}

\* With R >= 0: never more than R + 1 attempts nor calls of fn; no attempt after
\* one that succeeded; a return is the return of the value of the last attempt,
\* which succeeded; a raise comes after R + 1 attempts that all failed and is the
\* raise of the exception of the last of them.
RetryContract ==
    rt.retries >= 0 =>
        /\ Len(rt.log) <= rt.retries + 1
        /\ Cardinality(FnCalls) <= rt.retries + 1
        /\ Len(rt.log) \in {rt.attempt, rt.attempt + 1}
        /\ \A i \in 1..(Len(rt.log) - 1) : ~rt.log[i].ok
        /\ (rt.log # <<>> /\ rt.log[Len(rt.log)].ok) =>
              /\ rt.pc = "returned"
              /\ rt.result = rt.log[Len(rt.log)].val
        /\ rt.pc = "returned" =>
              /\ rt.log # <<>> /\ rt.log[Len(rt.log)].ok
              /\ rt.raised = NoExc
        /\ rt.pc = "raised" =>
              /\ Len(rt.log) = rt.retries + 1
              /\ \A i \in 1..Len(rt.log) : ~rt.log[i].ok
              /\ rt.raised = rt.log[Len(rt.log)].val
              /\ rt.result = NoValue

\* C27: _with_retries with R >= 0 keeps the contract above at every step, and
\* the call ends: it returns or raises after at most R + 1 attempts.
C27_RetryContractAndTermination ==
    /\ [](RetryContract)
    /\ <>(RetryEnded)

\* With R = 2 the call has returned the value of its third attempt after two
\* attempts that raised different exceptions, having slept twice.
C27_Witness ==
    /\ rt.retries = 2 /\ rt.pc = "returned"
    /\ Len(rt.log) = 3 /\ rt.sleeps = 2
    /\ rt.log[1].val # rt.log[2].val
    /\ rt.result = rt.log[3].val

\* With R = 2 the call has raised the exception of its third attempt, the first
\* attempt having raised another.
C27_WitnessRaised ==
    /\ rt.retries = 2 /\ rt.pc = "raised"
    /\ Len(rt.log) = 3
    /\ rt.log[1].val # rt.log[3].val
    /\ rt.raised = rt.log[3].val

---------------------------------------------------------------------------
(* The proxy lock and the environment (checked under SpecProxy).           *)

\* The thread is between its acquire and its release of the lock.
Holds(t) ==
    IF t = "request" THEN px.pc[t] \in {"acquired", "yielded", "finally"}
    ELSE px.pc[t] = "refreshing"

Holders == {t \in Threads : Holds(t)}

\* C28: with the proxy enabled, at most one of the request inside
\* _proxy_context, the startup refresh and the refresh loop holds the lock; the
\* lock is taken exactly when one of them holds it, so it is free when none is
\* in progress; and right after an exit from _proxy_context, fn having returned
\* or raised, HTTP_PROXY and HTTPS_PROXY have the values they had on entry
\* (unset if they were unset) and the request no longer holds the lock.
C28_LockAndEnvironment ==
    px.enabled =>
        /\ Cardinality(Holders) <= 1
        /\ px.locked <=> Holders # {}
        /\ px.last = "exit" =>
              /\ px.http = px.entry.http
              /\ px.https = px.entry.https
              /\ ~Holds("request")

\* fn has raised inside a context that had set a proxy while HTTP_PROXY was set
\* and HTTPS_PROXY was not; the context is left, and the refresh thread is waiting.
C28_Witness ==
    /\ px.enabled /\ px.last = "exit" /\ px.raised
    /\ px.proxy # Unset
    /\ px.entry.http = "env" /\ px.entry.https = Unset
    /\ px.http = "env" /\ px.https = Unset
    /\ px.pc["loop"] = "sleeping"
    /\ ~px.locked

\* The refresh thread holds the lock while a request waits for it.
C28_WitnessContention ==
    /\ px.enabled
    /\ px.pc["loop"] = "refreshing"
    /\ px.pc["request"] = "wantLock"

====
